---- MODULE Spec2Model ----
(***************************************************************************)
(* A model of the crossword engine of eatubert/xword: the clue indexer and *)
(* completion checker of app/utils/crosswordHelpers.ts and the cursor      *)
(* state machine of app/components/Crossword.tsx, and the decoder of .puz   *)
(* files (parsePuzFile).                                                   *)
(*                                                                         *)
(* Representation.  A JavaScript string is a sequence of one-character     *)
(* strings ("" is << >>).  Arrays that the code indexes from 0 are         *)
(* functions on 0..n-1.  A cell {row, col} is the pair <<row, col>>; the   *)
(* null cell is << >>.  A null entry of numberGrid is 0, a value the       *)
(* counter, which starts at 1, never takes.  The clue map, a JavaScript    *)
(* Map, is the sequence of its values in insertion order.                  *)
(***************************************************************************)
EXTENDS Integers, Sequences, FiniteSets, TLC

VARIABLES
    phase,               \* "constructed": before the mount effects; "mounted"; "checked"
    size,                \* data.size
    grid,                \* the memoised 2D solution grid
    clues,               \* data.clues
    userGrid,            \* useState userGrid
    selectedCell,        \* useState selectedCell
    direction,           \* useState direction
    clueMap,             \* useState clueMap
    numberGrid,          \* useState numberGrid
    isComplete,          \* useState isComplete
    isCorrect,           \* useState isCorrect
    isTimerRunning,      \* useState isTimerRunning
    isPaused,            \* useState isPaused
    showSuccessMessage,  \* useState showSuccessMessage
    puzFile,             \* the bytes of the file handed to parsePuzFile
    puzResult,           \* what parsePuzFile gave: nothing yet, an error, a document
    savedState,          \* localStorage item crossword_<fileName>: null or a text
    elapsedTime,         \* useState elapsedTime, in seconds
    pausedTimeRef,       \* pausedTimeRef.current, in seconds
    lastResumeTimeRef,   \* lastResumeTimeRef.current, in milliseconds
    now,                 \* Date.now(), in milliseconds
    bucket,              \* the objects of the puzzle bucket: key -> body
    today,               \* the current UTC date
    cachedPuzzle,        \* home.tsx cachedPuzzle
    cachedPuzzleKey,     \* home.tsx cachedPuzzleKey
    loaderData,          \* what the loader returned last
    hidden,              \* document.hidden
    localKeys,           \* the keys of localStorage, in the order of localStorage.key(i)
    formData,            \* the form of the last request to the upload action
    actionData,          \* what the upload action returned last
    getObjectKey,        \* the key of the GetObject of the last loader call, or null
    calls,               \* the loader invocations in flight: where each one is
    userPause            \* history: the last togglePause was a pause

vars == <<phase, size, grid, clues, userGrid, selectedCell, direction, clueMap,
          numberGrid, isComplete, isCorrect, isTimerRunning, isPaused,
          showSuccessMessage, puzFile, puzResult, savedState, elapsedTime,
          pausedTimeRef, lastResumeTimeRef, now, bucket, today, cachedPuzzle,
          cachedPuzzleKey, loaderData, hidden, localKeys, formData, actionData,
          getObjectKey, calls, userPause>>

(***************************************************************************)
(* Bounds of the model.                                                    *)
(***************************************************************************)
\* Grids of the cursor model have at most this many cells (rows * cols)
MaxCells == 6
\* and at most this many rows and this many columns.
MaxSide == 4
\* Grids of the completion-checker model have at most this many cells.
MaxCheckCells == 4
\* Grids of the clue-indexer model have at most this many cells.
MaxIndexCells == 9
\* Grids of the typing model have at most this many cells.
MaxTypeCells == 3
\* Grids of the clue-list model have at most this many cells,
MaxClueCells == 4
\* and its two clue lists hold at most this many clue strings together.
MaxClues == 3
\* Files of the decoder model carry every pattern of letters and black cells
\* for grids of at most this many cells,
MaxPuzCells == 4
\* and at most this many clue strings.
MaxPuzClues == 2
MaxSavedCells == 3
MaxClock == 3000

(***************************************************************************)
(* Strings.                                                                *)
(***************************************************************************)
Null == << >>
EmptyStr == << >>
Dot == <<".">>

Digits == <<"0", "1", "2", "3", "4", "5", "6", "7", "8", "9">>
IsDigit(ch) == \E i \in 1..10 : Digits[i] = ch
DigitValue(ch) == (CHOOSE i \in 1..10 : Digits[i] = ch) - 1
IsSpace(ch) == ch = " "

\* String.prototype.toUpperCase on the letters the model uses
UpperChar(ch) == CASE ch = "a" -> "A"
                   [] ch = "b" -> "B"
                   [] ch = "x" -> "X"
                   [] OTHER -> ch
\* The upper-casing of one character as a string: the sharp s has no
\* one-character upper case and becomes "SS"
UpperString(ch) == IF ch = "ß" THEN <<"S", "S">> ELSE <<UpperChar(ch)>>
RECURSIVE ToUpperCase(_)
ToUpperCase(s) == IF Len(s) = 0 THEN EmptyStr
                  ELSE UpperString(Head(s)) \o ToUpperCase(Tail(s))

\* String.prototype.slice(-1)
SliceLast(s) == IF Len(s) = 0 THEN EmptyStr ELSE <<s[Len(s)]>>

\* String.prototype.trim
RECURSIVE TrimStart(_)
TrimStart(s) == IF Len(s) > 0 /\ IsSpace(Head(s)) THEN TrimStart(Tail(s)) ELSE s
RECURSIVE TrimEnd(_)
TrimEnd(s) == IF Len(s) > 0 /\ IsSpace(s[Len(s)])
              THEN TrimEnd(SubSeq(s, 1, Len(s) - 1)) ELSE s
Trim(s) == TrimEnd(TrimStart(s))

\* JavaScript truthiness of a string
Truthy(s) == s # EmptyStr

\* parseInt of a string of decimal digits
RECURSIVE ParseInt(_)
ParseInt(ds) == IF Len(ds) = 0 THEN 0
                ELSE 10 * ParseInt(SubSeq(ds, 1, Len(ds) - 1)) + DigitValue(ds[Len(ds)])

\* `${n}` for a non-negative integer
RECURSIVE NumberToString(_)
NumberToString(n) == IF n < 10 THEN <<Digits[n + 1]>>
                     ELSE NumberToString(n \div 10) \o <<Digits[(n % 10) + 1]>>

(***************************************************************************)
(* crosswordHelpers.ts                                                     *)
(***************************************************************************)
convertFlatGridTo2D(flatGrid, rows, cols) ==
    [i \in 0..(rows - 1) |-> [j \in 0..(cols - 1) |-> flatGrid[i * cols + j]]]

\* Length of the longest prefix of s made of characters satisfying the class
RECURSIVE DigitPrefix(_)
DigitPrefix(s) == IF Len(s) > 0 /\ IsDigit(Head(s)) THEN 1 + DigitPrefix(Tail(s)) ELSE 0
RECURSIVE SpacePrefix(_)
SpacePrefix(s) == IF Len(s) > 0 /\ IsSpace(Head(s)) THEN 1 + SpacePrefix(Tail(s)) ELSE 0

\* A parser that accepts a number and a dot with no text after them
parseClue_Lenient(clueText) ==
    LET d    == DigitPrefix(clueText)
        rest == SubSeq(clueText, d + 2, Len(clueText))
        sp   == SpacePrefix(rest)
    IN  IF d >= 1 /\ Len(clueText) >= d + 1 /\ clueText[d + 1] = "."
        THEN [ok |-> TRUE,
              number |-> ParseInt(SubSeq(clueText, 1, d)),
              text |-> IF Len(rest) = 0 THEN EmptyStr
                       ELSE IF sp < Len(rest) THEN SubSeq(rest, sp + 1, Len(rest))
                       ELSE SubSeq(rest, Len(rest), Len(rest))]
        ELSE [ok |-> FALSE, number |-> 0, text |-> EmptyStr]

\* clueText.match(/^(\d+)\.\s*(.+)$/): one or more digits, a dot, then \s*
\* (greedy, giving back one character when nothing else is left for .+)
\* and at least one more character.
parseClue(clueText) ==
    LET d    == DigitPrefix(clueText)
        rest == SubSeq(clueText, d + 2, Len(clueText))
        sp   == SpacePrefix(rest)
    IN  IF d >= 1 /\ Len(clueText) >= d + 2 /\ clueText[d + 1] = "."
        THEN [ok |-> TRUE,
              number |-> ParseInt(SubSeq(clueText, 1, d)),
              text |-> IF sp < Len(rest) THEN SubSeq(rest, sp + 1, Len(rest))
                       ELSE SubSeq(rest, Len(rest), Len(rest))]
        ELSE [ok |-> FALSE, number |-> 0, text |-> EmptyStr]

\* A lookup that takes the clue at list position n, whatever its number
FindClueText_ByPosition(list, n, i) == IF n <= Len(list) THEN n ELSE 0

\* clues.across.find(c => parsed && parsed.number === currentNumber):
\* the position of the first such clue in the list, 0 when there is none
RECURSIVE FindClueText(_, _, _)
FindClueText(list, n, i) ==
    IF i > Len(list) THEN 0
    ELSE IF parseClue(list[i]).ok /\ parseClue(list[i]).number = n THEN i
    ELSE FindClueText(list, n, i + 1)

\* A run length that counts to the end of the row, black cells included
AcrossLength_ToEdge(g, sz, row, c) == sz.cols - c

\* for (let c = col; c < size.cols && grid[row][c] !== "."; c++) length++
RECURSIVE AcrossLength(_, _, _, _)
AcrossLength(g, sz, row, c) ==
    IF c < sz.cols /\ g[row][c] # Dot THEN 1 + AcrossLength(g, sz, row, c + 1) ELSE 0

\* for (let r = row; r < size.rows && grid[r][col] !== "."; r++) length++
RECURSIVE DownLength(_, _, _, _)
DownLength(g, sz, r, col) ==
    IF r < sz.rows /\ g[r][col] # Dot THEN 1 + DownLength(g, sz, r + 1, col) ELSE 0

\* A numbering rule that looks at the left neighbour only
needsNumber_LeftOnly(g, row, col) ==
    \/ col = 0
    \/ g[row][col - 1] = Dot

\* const needsNumber = col === 0 || ... || grid[row - 1][col] === "."
needsNumber(g, row, col) ==
    \/ col = 0
    \/ g[row][col - 1] = Dot
    \/ row = 0
    \/ g[row - 1][col] = Dot

\* The body of the two nested loops for the cell at row-major position k
IndexCell(g, sz, cl, k, acc) ==
    LET row == k \div sz.cols
        col == k % sz.cols
        n   == acc.currentNumber
        aLen == AcrossLength(g, sz, row, col)
        aAt  == FindClueText(cl.across, n, 1)
        map1 == IF (col = 0 \/ g[row][col - 1] = Dot) /\ aLen > 1 /\ aAt # 0
                THEN Append(acc.map,
                            [number |-> n, text |-> parseClue(cl.across[aAt]).text,
                             direction |-> "across", startRow |-> row,
                             startCol |-> col, length |-> aLen])
                ELSE acc.map
        dLen == DownLength(g, sz, row, col)
        dAt  == FindClueText(cl.down, n, 1)
        map2 == IF (row = 0 \/ g[row - 1][col] = Dot) /\ dLen > 1 /\ dAt # 0
                THEN Append(map1,
                            [number |-> n, text |-> parseClue(cl.down[dAt]).text,
                             direction |-> "down", startRow |-> row,
                             startCol |-> col, length |-> dLen])
                ELSE map1
    IN  IF g[row][col] = Dot THEN acc
        ELSE IF needsNumber(g, row, col)
        THEN [numbers |-> [acc.numbers EXCEPT ![row][col] = n],
              map |-> map2,
              currentNumber |-> n + 1]
        ELSE acc

RECURSIVE IndexFrom(_, _, _, _, _)
IndexFrom(g, sz, cl, k, acc) ==
    IF k >= sz.rows * sz.cols THEN acc
    ELSE IndexFrom(g, sz, cl, k + 1, IndexCell(g, sz, cl, k, acc))

buildClueMapAndNumberGrid(g, sz, cl) ==
    LET r == IndexFrom(g, sz, cl, 0,
                       [numbers |-> [i \in 0..(sz.rows - 1) |->
                                        [j \in 0..(sz.cols - 1) |-> 0]],
                        map |-> << >>,
                        currentNumber |-> 1])
    IN  [clueMap |-> r.map, numberGrid |-> r.numbers]

NoClue == [number |-> 0, text |-> EmptyStr, direction |-> "none",
           startRow |-> 0, startCol |-> 0, length |-> 0]

ClueCovers(clue, row, col, dir) ==
    /\ clue.direction = dir
    /\ IF dir = "across"
       THEN clue.startRow = row /\ col >= clue.startCol
            /\ col < clue.startCol + clue.length
       ELSE clue.startCol = col /\ row >= clue.startRow
            /\ row < clue.startRow + clue.length

RECURSIVE FindClueFrom(_, _, _, _, _)
FindClueFrom(map, row, col, dir, i) ==
    IF i > Len(map) THEN NoClue
    ELSE IF ClueCovers(map[i], row, col, dir) THEN map[i]
    ELSE FindClueFrom(map, row, col, dir, i + 1)

findClueForCell(map, row, col, dir) == FindClueFrom(map, row, col, dir, 1)

getWordCells(clue, dir) ==
    IF clue = NoClue THEN << >>
    ELSE IF dir = "across"
    THEN [c \in 1..clue.length |-> <<clue.startRow, clue.startCol + (c - 1)>>]
    ELSE [r \in 1..clue.length |-> <<clue.startRow + (r - 1), clue.startCol>>]

\* A check that compares the entry with "" without trimming it
checkPuzzleCompletion_NoTrim(ug, g) ==
    LET allFilled == \A r \in DOMAIN ug : \A c \in DOMAIN ug[r] :
                        g[r][c] = Dot \/ ug[r][c] # EmptyStr
        correct   == \A r \in DOMAIN ug : \A c \in DOMAIN ug[r] :
                        g[r][c] = Dot \/ ToUpperCase(ug[r][c]) = g[r][c]
    IN  IF ~allFilled THEN [isComplete |-> FALSE, isCorrect |-> FALSE]
        ELSE [isComplete |-> TRUE, isCorrect |-> correct]

checkPuzzleCompletion(ug, g) ==
    LET allFilled == \A r \in DOMAIN ug : \A c \in DOMAIN ug[r] :
                        g[r][c] = Dot \/ Trim(ug[r][c]) # EmptyStr
        correct   == \A r \in DOMAIN ug : \A c \in DOMAIN ug[r] :
                        g[r][c] = Dot \/ ToUpperCase(ug[r][c]) = g[r][c]
    IN  IF ~allFilled THEN [isComplete |-> FALSE, isCorrect |-> FALSE]
        ELSE [isComplete |-> TRUE, isCorrect |-> correct]

\* A scan that stops at the first cell inside the grid, black or not
findNextCell_AnyCell(g, row, col, deltaRow, deltaCol, sz) ==
    LET newRow == row + deltaRow
        newCol == col + deltaCol
    IN  IF newRow >= 0 /\ newRow < sz.rows /\ newCol >= 0 /\ newCol < sz.cols
        THEN <<newRow, newCol>>
        ELSE Null

RECURSIVE findNextCell(_, _, _, _, _, _)
findNextCell(g, row, col, deltaRow, deltaCol, sz) ==
    LET newRow == row + deltaRow
        newCol == col + deltaCol
    IN  IF newRow >= 0 /\ newRow < sz.rows /\ newCol >= 0 /\ newCol < sz.cols
        THEN IF g[newRow][newCol] # Dot THEN <<newRow, newCol>>
             ELSE findNextCell(g, newRow, newCol, deltaRow, deltaCol, sz)
        ELSE Null

(***************************************************************************)
(* Crossword.tsx: the component's state and the values a render derives.   *)
(***************************************************************************)
puzzleVars == <<size, grid, clues, clueMap, numberGrid>>
completionVars == <<isComplete, isCorrect, isTimerRunning, showSuccessMessage>>
\* The decoder's file and result, which no handler of the component touches
uploadVars == <<puzFile, puzResult>>
storageVars == <<savedState>>
timerVars == <<elapsedTime, pausedTimeRef, lastResumeTimeRef, now, userPause>>
loaderVars == <<bucket, today, cachedPuzzle, cachedPuzzleKey, loaderData>>
pageVars == <<hidden, localKeys>>
serverVars == <<formData, actionData, getObjectKey, calls>>
outsideVars == <<uploadVars, storageVars, loaderVars, pageVars, serverVars>>

\* Nothing saved in localStorage
NoStorage == savedState = Null
\* useState(0), useRef(0), useRef(Date.now()) at time 0
TimerInit == elapsedTime = 0 /\ pausedTimeRef = 0 /\ lastResumeTimeRef = 0 /\ now = 0 /\ userPause = FALSE
\* The page is visible; the key list of localStorage is not looked at
NoServer == formData = Null /\ actionData = Null /\ getObjectKey = Null /\ calls = << >>
NoPage == hidden = FALSE /\ localKeys = << >> /\ NoServer
\* The loader has not run and there is no bucket
NoLoader == bucket = << >> /\ today = Null /\ cachedPuzzle = Null /\ cachedPuzzleKey = Null /\ loaderData = Null

Rows == 0..(size.rows - 1)
Cols == 0..(size.cols - 1)

\* A clue string "<n>. x"
ClueString(n) == NumberToString(n) \o <<".", " ", "x">>

\* Clue lists that carry a clue for every number a grid of n cells can assign
FullClues(n) == [across |-> [i \in 1..n |-> ClueString(i)],
                 down   |-> [i \in 1..n |-> ClueString(i)]]

getCurrentClue ==
    IF selectedCell = Null THEN NoClue
    ELSE findClueForCell(clueMap, selectedCell[1], selectedCell[2], direction)

\* (isCorrect && !isTimerRunning) || isPaused
isInteractionDisabled == (isCorrect /\ ~isTimerRunning) \/ isPaused

\* !(isCorrect && !showSuccessMessage): ClueList, ClueLine and MobileKeyboard render
showPuzzleInterface == ~(isCorrect /\ ~showSuccessMessage)

\* Array.from(clueMap.values()).filter((c) => c.direction === dir)
getCluesByDirection(dir) == SelectSeq(clueMap, LAMBDA c : c.direction = dir)

\* allClues.findIndex((c) => c.number === n), counted from 0
RECURSIVE FindIndexFrom(_, _, _)
FindIndexFrom(list, n, i) ==
    IF i > Len(list) THEN -1
    ELSE IF list[i].number = n THEN i - 1
    ELSE FindIndexFrom(list, n, i + 1)
findIndex(list, n) == FindIndexFrom(list, n, 1)

\* cells.find((cell) => !userGrid[cell.row][cell.col]); Null when there is none
RECURSIVE FirstEmptyFrom(_, _, _)
FirstEmptyFrom(cells, ug, i) ==
    IF i > Len(cells) THEN Null
    ELSE IF ~Truthy(ug[cells[i][1]][cells[i][2]]) THEN cells[i]
    ELSE FirstEmptyFrom(cells, ug, i + 1)
\* A search that answers with the first cell of a word that has an empty cell
firstEmptyCell_WordStart(cells, ug) ==
    IF FirstEmptyFrom(cells, ug, 1) # Null THEN cells[1] ELSE Null

firstEmptyCell(cells, ug) == FirstEmptyFrom(cells, ug, 1)

\* The while (attempts < allClues.length) loop of goToNextClue / goToPrevClue;
\* Null when it ends without finding a clue with an empty cell
RECURSIVE ScanClues(_, _, _, _, _, _)
ScanClues(allClues, targetIndex, attempts, increment, ug, dir) ==
    IF attempts >= Len(allClues) THEN Null
    ELSE LET found == firstEmptyCell(getWordCells(allClues[targetIndex + 1], dir), ug)
         IN  IF found # Null THEN found
             ELSE ScanClues(allClues,
                            (targetIndex + increment + Len(allClues)) % Len(allClues),
                            attempts + 1, increment, ug, dir)

\* The cell that goToNextClue (increment 1) or goToPrevClue (increment -1)
\* selects; the selected cell itself when the function returns early.  Both
\* read the userGrid of the render that created them.
navigateToClue(increment) ==
    LET currentClue  == getCurrentClue
        allClues     == getCluesByDirection(direction)
        currentIndex == findIndex(allClues, currentClue.number)
        adjacent     == (currentIndex + increment + Len(allClues)) % Len(allClues)
        found        == ScanClues(allClues, adjacent, 0, increment, userGrid, direction)
        targetClue   == allClues[adjacent + 1]
    IN  IF currentClue = NoClue THEN selectedCell
        ELSE IF found # Null THEN found
        ELSE <<targetClue.startRow, targetClue.startCol>>

goToNextClue == navigateToClue(1)
goToPrevClue == navigateToClue(-1)

\* The completion effect: it runs after every render that changed userGrid
CompletionEffect(ug) ==
    LET res == checkPuzzleCompletion(ug, grid)
    IN  /\ isComplete' = res.isComplete
        /\ isCorrect' = res.isCorrect
        /\ isTimerRunning' = IF res.isCorrect THEN FALSE ELSE isTimerRunning
        /\ showSuccessMessage' = IF res.isCorrect THEN TRUE ELSE showSuccessMessage

(***************************************************************************)
(* Construction and mount.                                                 *)
(***************************************************************************)
\* parsePuzFile has not been called
NoResult == [outcome |-> "none"]

GridLetters == {<<"A">>}

InitState(maxCells, maxSide, entries) ==
    /\ phase = "constructed"
    /\ \E rows \in 1..maxSide, cols \in 1..maxSide :
          /\ rows * cols <= maxCells
          /\ size = [rows |-> rows, cols |-> cols]
          /\ \E flat \in [0..(rows * cols - 1) -> {Dot} \cup GridLetters] :
                grid = convertFlatGridTo2D(flat, rows, cols)
          /\ clues = FullClues(rows * cols)
          /\ userGrid \in [0..(rows - 1) -> [0..(cols - 1) -> entries]]
    /\ selectedCell = Null
    /\ direction = "across"
    /\ clueMap = << >>
    /\ numberGrid = << >>
    /\ isComplete = FALSE
    /\ isCorrect = FALSE
    /\ isTimerRunning = TRUE
    /\ isPaused = FALSE
    /\ showSuccessMessage = FALSE
    /\ puzFile = << >>
    /\ puzResult = NoResult
    /\ NoStorage /\ TimerInit /\ NoPage /\ NoLoader

Init == InitState(MaxCells, MaxSide, {EmptyStr})

\* The effects of the first render: the clue map is built, the first across
\* clue is selected, and the completion check runs on the initial userGrid.
Mount ==
    /\ phase = "constructed"
    /\ phase' = "mounted"
    /\ LET built == buildClueMapAndNumberGrid(grid, size, clues)
           acrossClues == SelectSeq(built.clueMap, LAMBDA c : c.direction = "across")
       IN  /\ numberGrid' = built.numberGrid
           /\ clueMap' = built.clueMap
           /\ selectedCell' = IF Len(acrossClues) > 0
                              THEN <<acrossClues[1].startRow, acrossClues[1].startCol>>
                              ELSE selectedCell
    /\ CompletionEffect(userGrid)
    /\ UNCHANGED <<size, grid, clues, userGrid, direction, isPaused, outsideVars, timerVars>>

(***************************************************************************)
(* Event handlers.  Each action is one handler call followed by the        *)
(* effects of the render it causes.                                        *)
(***************************************************************************)
\* A toggle that always answers down
flipDirection_Stuck(prev) == "down"

\* (prev) => (prev === "across" ? "down" : "across")
flipDirection(prev) == IF prev = "across" THEN "down" ELSE "across"

\* A state update that leaves userGrid alone runs no completion effect
KeepUserGrid == UNCHANGED <<userGrid, isComplete, isCorrect, isTimerRunning,
                            showSuccessMessage>>

\* A resume that keeps the time of the previous resume
togglePause_KeepsResumeTime ==
    /\ phase = "mounted"
    /\ ~isCorrect \/ isPaused
    /\ IF ~isPaused
       THEN LET sessionTime == (now - lastResumeTimeRef) \div 1000
            IN  /\ pausedTimeRef' = pausedTimeRef + sessionTime
                /\ elapsedTime' = pausedTimeRef + sessionTime
                /\ UNCHANGED lastResumeTimeRef
       ELSE UNCHANGED <<lastResumeTimeRef, pausedTimeRef, elapsedTime>>
    /\ isPaused' = ~isPaused
    /\ userPause' = ~isPaused
    /\ KeepUserGrid
    /\ UNCHANGED <<phase, outsideVars, now, puzzleVars, selectedCell, direction>>

togglePause ==
    /\ phase = "mounted"
    /\ ~isCorrect \/ isPaused        \* a pause button or the Continue button renders
    /\ ~hidden                       \* a hidden page receives no click
    /\ IF ~isPaused
       THEN LET sessionTime == (now - lastResumeTimeRef) \div 1000
            IN  /\ pausedTimeRef' = pausedTimeRef + sessionTime
                /\ elapsedTime' = pausedTimeRef + sessionTime
                /\ UNCHANGED lastResumeTimeRef
       ELSE /\ lastResumeTimeRef' = now
            /\ UNCHANGED <<pausedTimeRef, elapsedTime>>
    /\ isPaused' = ~isPaused
    /\ userPause' = ~isPaused
    /\ KeepUserGrid
    /\ UNCHANGED <<phase, outsideVars, now, puzzleVars, selectedCell, direction>>

\* The direction handleCellClick leaves after selecting another cell
defaultDirection(row, col) ==
    LET hasAcross == findClueForCell(clueMap, row, col, "across") # NoClue
        hasDown   == findClueForCell(clueMap, row, col, "down") # NoClue
    IN  IF hasAcross /\ ~hasDown THEN "across"
        ELSE IF hasDown /\ ~hasAcross THEN "down"
        ELSE IF hasAcross THEN "across"
        ELSE direction

handleCellClick(row, col) ==
    /\ phase = "mounted"
    /\ IF grid[row][col] = Dot \/ (isCorrect /\ ~isTimerRunning) \/ isPaused
       THEN UNCHANGED <<selectedCell, direction>>
       ELSE IF selectedCell # Null /\ selectedCell[1] = row /\ selectedCell[2] = col
       THEN /\ direction' = flipDirection(direction)
            /\ UNCHANGED selectedCell
       ELSE /\ selectedCell' = <<row, col>>
            /\ direction' = defaultDirection(row, col)
    /\ KeepUserGrid
    /\ UNCHANGED <<phase, outsideVars, timerVars, puzzleVars, isPaused>>

\* A loop that does not skip filled cells
SkipFilledAcross_NoSkip(newGrid, nextRow, nextCol, limit) == nextCol

\* while (next < limit && newGrid[..][..]) next++, along a row
RECURSIVE SkipFilledAcross(_, _, _, _)
SkipFilledAcross(newGrid, nextRow, nextCol, limit) ==
    IF nextCol < limit /\ Truthy(newGrid[nextRow][nextCol])
    THEN SkipFilledAcross(newGrid, nextRow, nextCol + 1, limit)
    ELSE nextCol

\* the same along a column
RECURSIVE SkipFilledDown(_, _, _, _)
SkipFilledDown(newGrid, nextRow, nextCol, limit) ==
    IF nextRow < limit /\ Truthy(newGrid[nextRow][nextCol])
    THEN SkipFilledDown(newGrid, nextRow + 1, nextCol, limit)
    ELSE nextRow

\* The cell handleInputChange selects after storing newValue (newGrid is the
\* updated copy); the selected cell itself when it selects nothing
inputNextCell(row, col, newValue, newGrid) ==
    LET currentClue == getCurrentClue
        acrossLimit == currentClue.startCol + currentClue.length
        downLimit   == currentClue.startRow + currentClue.length
        nextCol     == SkipFilledAcross(newGrid, row, col + 1, acrossLimit)
        nextRow     == SkipFilledDown(newGrid, row + 1, col, downLimit)
    IN  IF ~(Truthy(newValue) /\ selectedCell # Null) THEN selectedCell
        ELSE IF currentClue = NoClue THEN selectedCell
        ELSE IF direction = "across"
        THEN IF nextCol >= acrossLimit THEN goToNextClue
             ELSE IF row < size.rows /\ nextCol < size.cols /\ grid[row][nextCol] # Dot
             THEN <<row, nextCol>>
             ELSE selectedCell
        ELSE IF nextRow >= downLimit THEN goToNextClue
             ELSE IF nextRow < size.rows /\ col < size.cols /\ grid[nextRow][col] # Dot
             THEN <<nextRow, col>>
             ELSE selectedCell

\* A handler that returns early while paused only, not once the puzzle is correct
inputChange_PauseGuardOnly(row, col, value) ==
    IF isPaused
    THEN UNCHANGED <<selectedCell, userGrid, completionVars>>
    ELSE LET newValue == ToUpperCase(SliceLast(value))
             newGrid  == [userGrid EXCEPT ![row][col] = newValue]
         IN  /\ userGrid' = newGrid
             /\ selectedCell' = inputNextCell(row, col, newValue, newGrid)
             /\ CompletionEffect(newGrid)

\* What handleInputChange does to the state; shared by the <input> onChange
\* and by the on-screen keyboard
inputChange(row, col, value) ==
    IF (isCorrect /\ ~isTimerRunning) \/ isPaused
    THEN UNCHANGED <<selectedCell, userGrid, completionVars>>
    ELSE LET newValue == ToUpperCase(SliceLast(value))
             newGrid  == [userGrid EXCEPT ![row][col] = newValue]
         IN  /\ userGrid' = newGrid
             /\ selectedCell' = inputNextCell(row, col, newValue, newGrid)
             /\ CompletionEffect(newGrid)

\* Values an <input> reports: empty after a deletion, one typed character,
\* or the old character followed by the typed one
InputValues == {EmptyStr, <<"a">>, <<"A", "b">>}

handleInputChange(row, col, value) ==
    /\ phase = "mounted"
    /\ inputChange(row, col, value)
    /\ UNCHANGED <<phase, outsideVars, timerVars, puzzleVars, direction, isPaused>>

\* A Backspace on an empty cell that moves back without clearing the cell it
\* moves to
backspaceOnEmpty_NoClear(row, col) ==
    LET currentClue   == getCurrentClue
        isAtWordStart == \/ direction = "across" /\ col = currentClue.startCol
                         \/ direction = "down" /\ row = currentClue.startRow
        allClues      == getCluesByDirection(direction)
        currentIndex  == findIndex(allClues, currentClue.number)
        prevIndex     == (currentIndex - 1 + Len(allClues)) % Len(allClues)
        prevClue      == allClues[prevIndex + 1]
        lastRow       == IF direction = "across" THEN prevClue.startRow
                         ELSE prevClue.startRow + prevClue.length - 1
        lastCol       == IF direction = "across"
                         THEN prevClue.startCol + prevClue.length - 1
                         ELSE prevClue.startCol
        prevRow       == IF direction = "across" THEN row ELSE row - 1
        prevCol       == IF direction = "across" THEN col - 1 ELSE col
    IN  IF currentClue = NoClue THEN [cell |-> selectedCell, grid |-> userGrid]
        ELSE IF isAtWordStart THEN [cell |-> <<lastRow, lastCol>>, grid |-> userGrid]
        ELSE IF prevRow >= 0 /\ prevCol >= 0 /\ grid[prevRow][prevCol] # Dot
        THEN [cell |-> <<prevRow, prevCol>>, grid |-> userGrid]
        ELSE [cell |-> selectedCell, grid |-> userGrid]

\* The Backspace branch of handleKeyDown on an empty cell: the new selected
\* cell and the new userGrid
backspaceOnEmpty(row, col) ==
    LET currentClue   == getCurrentClue
        isAtWordStart == \/ direction = "across" /\ col = currentClue.startCol
                         \/ direction = "down" /\ row = currentClue.startRow
        allClues      == getCluesByDirection(direction)
        currentIndex  == findIndex(allClues, currentClue.number)
        prevIndex     == (currentIndex - 1 + Len(allClues)) % Len(allClues)
        prevClue      == allClues[prevIndex + 1]
        lastRow       == IF direction = "across" THEN prevClue.startRow
                         ELSE prevClue.startRow + prevClue.length - 1
        lastCol       == IF direction = "across"
                         THEN prevClue.startCol + prevClue.length - 1
                         ELSE prevClue.startCol
        prevRow       == IF direction = "across" THEN row ELSE row - 1
        prevCol       == IF direction = "across" THEN col - 1 ELSE col
    IN  IF currentClue = NoClue THEN [cell |-> selectedCell, grid |-> userGrid]
        ELSE IF isAtWordStart THEN [cell |-> <<lastRow, lastCol>>, grid |-> userGrid]
        ELSE IF prevRow >= 0 /\ prevCol >= 0 /\ grid[prevRow][prevCol] # Dot
        THEN [cell |-> <<prevRow, prevCol>>,
              grid |-> [userGrid EXCEPT ![prevRow][prevCol] = EmptyStr]]
        ELSE [cell |-> selectedCell, grid |-> userGrid]

Keys == {" ", "Tab", "Backspace", "ArrowLeft", "ArrowRight", "ArrowUp", "ArrowDown"}
\* The key events the model sends: each key, and Tab also with Shift held
KeyEvents == {[key |-> k, shiftKey |-> FALSE] : k \in Keys}
                \cup {[key |-> "Tab", shiftKey |-> TRUE]}
ArrowKeys == {"ArrowLeft", "ArrowRight", "ArrowUp", "ArrowDown"}
deltaRow(key) == IF key = "ArrowUp" THEN -1 ELSE IF key = "ArrowDown" THEN 1 ELSE 0
deltaCol(key) == IF key = "ArrowLeft" THEN -1 ELSE IF key = "ArrowRight" THEN 1 ELSE 0

\* An arrow move that looks at the adjacent cell only and does not skip black cells
arrowTarget_Adjacent(key, row, col) ==
    LET r == row + deltaRow(key)
        c == col + deltaCol(key)
    IN  IF r >= 0 /\ r < size.rows /\ c >= 0 /\ c < size.cols /\ grid[r][c] # Dot
        THEN <<r, c>> ELSE selectedCell

\* The arrow branch of handleKeyDown: the new selected cell
arrowTarget(key, row, col) ==
    LET nextCell == findNextCell(grid, row, col, deltaRow(key), deltaCol(key), size)
    IN  IF nextCell # Null THEN nextCell ELSE selectedCell

handleKeyDown(key, shiftKey, row, col) ==
    /\ phase = "mounted"
    /\ IF (isCorrect /\ ~isTimerRunning) \/ isPaused
       THEN UNCHANGED <<selectedCell, direction>> /\ KeepUserGrid
       ELSE IF key = " "
       THEN /\ direction' = flipDirection(direction)
            /\ UNCHANGED selectedCell /\ KeepUserGrid
       ELSE IF key = "Tab"
       THEN /\ UNCHANGED direction /\ KeepUserGrid
            /\ selectedCell' = IF shiftKey THEN goToPrevClue ELSE goToNextClue
       ELSE IF key = "Backspace" /\ ~Truthy(userGrid[row][col])
       THEN LET res == backspaceOnEmpty(row, col)
            IN  /\ selectedCell' = res.cell
                /\ UNCHANGED direction
                /\ IF res.grid # userGrid
                   THEN userGrid' = res.grid /\ CompletionEffect(res.grid)
                   ELSE KeepUserGrid
       ELSE IF key \in ArrowKeys
       THEN /\ selectedCell' = arrowTarget(key, row, col)
            /\ UNCHANGED direction /\ KeepUserGrid
       ELSE UNCHANGED <<selectedCell, direction>> /\ KeepUserGrid
    /\ UNCHANGED <<phase, outsideVars, timerVars, puzzleVars, isPaused>>

\* onPrevClue / onNextClue of a ClueLine: goToPrevClue / goToNextClue
onNextClue ==
    /\ phase = "mounted"
    /\ showPuzzleInterface
    /\ selectedCell' = goToNextClue
    /\ KeepUserGrid
    /\ UNCHANGED <<phase, outsideVars, timerVars, puzzleVars, direction, isPaused>>

onPrevClue ==
    /\ phase = "mounted"
    /\ showPuzzleInterface
    /\ selectedCell' = goToPrevClue
    /\ KeepUserGrid
    /\ UNCHANGED <<phase, outsideVars, timerVars, puzzleVars, direction, isPaused>>

\* onToggleDirection of a ClueLine
toggleDirection ==
    /\ phase = "mounted"
    /\ showPuzzleInterface
    /\ direction' = flipDirection(direction)
    /\ KeepUserGrid
    /\ UNCHANGED <<phase, outsideVars, timerVars, puzzleVars, selectedCell, isPaused>>

\* A BACK key that leaves the letter of a filled cell in place
backKey_KeepsLetter(row, col) ==
    LET prevRow == IF direction = "across" THEN row ELSE row - 1
        prevCol == IF direction = "across" THEN col - 1 ELSE col
    IN  IF Truthy(userGrid[row][col])
        THEN [cell |-> selectedCell, grid |-> userGrid]
        ELSE IF prevRow >= 0 /\ prevCol >= 0 /\ grid[prevRow][prevCol] # Dot
        THEN [cell |-> <<prevRow, prevCol>>,
              grid |-> [userGrid EXCEPT ![prevRow][prevCol] = EmptyStr]]
        ELSE [cell |-> selectedCell, grid |-> userGrid]

\* The BACK branch of handleKeyboardClick: the new selected cell and userGrid
backKey(row, col) ==
    LET prevRow == IF direction = "across" THEN row ELSE row - 1
        prevCol == IF direction = "across" THEN col - 1 ELSE col
    IN  IF Truthy(userGrid[row][col])
        THEN [cell |-> selectedCell, grid |-> [userGrid EXCEPT ![row][col] = EmptyStr]]
        ELSE IF prevRow >= 0 /\ prevCol >= 0 /\ grid[prevRow][prevCol] # Dot
        THEN [cell |-> <<prevRow, prevCol>>,
              grid |-> [userGrid EXCEPT ![prevRow][prevCol] = EmptyStr]]
        ELSE [cell |-> selectedCell, grid |-> userGrid]

BACK == <<"B", "A", "C", "K">>
\* The keys of KEYBOARD_LAYOUT the model presses, and the BACK key
KeyboardKeys == {<<"A">>, <<"B">>, BACK}

handleKeyboardClick(key) ==
    /\ phase = "mounted"
    /\ showPuzzleInterface
    /\ IF selectedCell = Null \/ (isCorrect /\ ~isTimerRunning) \/ isPaused
       THEN UNCHANGED <<selectedCell, userGrid, completionVars>>
       ELSE IF key = BACK
       THEN LET res == backKey(selectedCell[1], selectedCell[2])
            IN  /\ selectedCell' = res.cell
                /\ userGrid' = res.grid
                /\ IF res.grid # userGrid THEN CompletionEffect(res.grid)
                   ELSE UNCHANGED completionVars
       ELSE inputChange(selectedCell[1], selectedCell[2], key)
    /\ UNCHANGED <<phase, outsideVars, timerVars, puzzleVars, direction, isPaused>>

\* onClueClick of a ClueList, for the clue at position i of the clue map
handleClueClick(i) ==
    /\ phase = "mounted"
    /\ showPuzzleInterface
    /\ selectedCell' = <<clueMap[i].startRow, clueMap[i].startCol>>
    /\ direction' = clueMap[i].direction
    /\ KeepUserGrid
    /\ UNCHANGED <<phase, outsideVars, timerVars, puzzleVars, isPaused>>

\* The close button (or Escape) of the success overlay
closeSuccessMessage ==
    /\ phase = "mounted"
    /\ showSuccessMessage
    /\ showSuccessMessage' = FALSE
    /\ UNCHANGED <<phase, outsideVars, timerVars, puzzleVars, userGrid, selectedCell, direction, isComplete,
                   isCorrect, isTimerRunning, isPaused>>

\* The <input> that has the focus and so receives the key and change events:
\* every handler that selects a cell also focuses its input
\* (setTimeout(() => inputRefs.current[row]?.[col]?.focus(), 0)).
FocusedCells == IF selectedCell = Null THEN {} ELSE {selectedCell}

Next ==
    \/ Mount
    \/ togglePause
    \/ \E row \in Rows, col \in Cols : handleCellClick(row, col)
    \/ \E rc \in FocusedCells, value \in InputValues :
          handleInputChange(rc[1], rc[2], value)
    \/ \E rc \in FocusedCells, e \in KeyEvents :
          handleKeyDown(e.key, e.shiftKey, rc[1], rc[2])
    \/ onNextClue
    \/ onPrevClue
    \/ toggleDirection
    \/ \E key \in KeyboardKeys : handleKeyboardClick(key)
    \/ \E i \in 1..Len(clueMap) : handleClueClick(i)
    \/ closeSuccessMessage

Spec == Init /\ [][Next]_vars

(***************************************************************************)
(* The timer.  Date.now() is read in milliseconds and observed every half  *)
(* second; the interval of the timer effect exists in the states where the *)
(* timer is running and the puzzle is not paused, and its callback may run *)
(* at any of these moments.                                                *)
(***************************************************************************)
ClockSteps == {500}

InitTimer == InitState(MaxTypeCells, MaxSide, {EmptyStr})

\* Time passes
Advance ==
    /\ phase = "mounted"
    /\ \E d \in ClockSteps : now + d <= MaxClock /\ now' = now + d
    /\ UNCHANGED <<phase, puzzleVars, userGrid, selectedCell, direction, completionVars,
                   isPaused, outsideVars, elapsedTime, pausedTimeRef, lastResumeTimeRef,
                   userPause>>

\* The callback of setInterval in the timer effect
Tick ==
    /\ phase = "mounted"
    /\ isTimerRunning /\ ~isPaused
    /\ LET sessionTime == (now - lastResumeTimeRef) \div 1000
       IN  elapsedTime' = pausedTimeRef + sessionTime
    /\ UNCHANGED <<phase, puzzleVars, userGrid, selectedCell, direction, completionVars,
                   isPaused, outsideVars, pausedTimeRef, lastResumeTimeRef, now, userPause>>

NextTimer ==
    \/ Mount
    \/ togglePause
    \/ Advance
    \/ Tick
    \/ \E key \in KeyboardKeys : handleKeyboardClick(key)

SpecTimer == InitTimer /\ [][NextTimer]_vars

\* The visibilitychange listener of the later revision of the component: a
\* page that becomes hidden pauses a running timer, a page that becomes
\* visible resumes a paused one
handleVisibilityChange ==
    /\ phase = "mounted"
    /\ hidden' = ~hidden
    /\ IF hidden'
       THEN IF ~isPaused /\ isTimerRunning
            THEN LET sessionTime == (now - lastResumeTimeRef) \div 1000
                 IN  /\ pausedTimeRef' = pausedTimeRef + sessionTime
                     /\ elapsedTime' = pausedTimeRef + sessionTime
                     /\ isPaused' = TRUE
                     /\ UNCHANGED lastResumeTimeRef
            ELSE UNCHANGED <<pausedTimeRef, elapsedTime, isPaused, lastResumeTimeRef>>
       ELSE IF isPaused /\ isTimerRunning
            THEN /\ lastResumeTimeRef' = now
                 /\ isPaused' = FALSE
                 /\ UNCHANGED <<pausedTimeRef, elapsedTime>>
            ELSE UNCHANGED <<pausedTimeRef, elapsedTime, isPaused, lastResumeTimeRef>>
    /\ KeepUserGrid
    /\ UNCHANGED <<phase, uploadVars, storageVars, loaderVars, localKeys, serverVars, now, userPause,
                   puzzleVars, selectedCell, direction>>

NextVisibility ==
    \/ Mount
    \/ togglePause
    \/ Advance
    \/ Tick
    \/ handleVisibilityChange

SpecVisibility == InitTimer /\ [][NextVisibility]_vars

(***************************************************************************)
(* The clean-up of localStorage in the later revision of the component.    *)
(* localStorage is its list of keys in the order of localStorage.key(i);   *)
(* removeItem takes a key out of the list and the keys after it move up.   *)
(***************************************************************************)
\* data.fileName
FileName == <<"a">>
KeyPrefix == <<"c", "r", "o", "s", "s", "w", "o", "r", "d", "_">>
TimerPrefix == KeyPrefix \o <<"t", "i", "m", "e", "r", "_">>
currentKey == KeyPrefix \o FileName
currentTimerKey == TimerPrefix \o FileName
\* The keys a browser may hold: those of this puzzle, of two other puzzles,
\* and one of another application
StoredKeys ==
    {currentKey, currentTimerKey, KeyPrefix \o <<"b">>, TimerPrefix \o <<"b">>,
     KeyPrefix \o <<"c">>, <<"t", "h", "e", "m", "e">>}

\* key.startsWith(prefix)
startsWith(key, prefix) == Len(key) >= Len(prefix) /\ SubSeq(key, 1, Len(prefix)) = prefix
removeItem(keys, key) == SelectSeq(keys, LAMBDA k : k # key)
setItem(keys, key) == IF \E i \in 1..Len(keys) : keys[i] = key THEN keys ELSE Append(keys, key)

\* for (let i = 0; i < localStorage.length; i++) { ... removeItem(key) ... }
RECURSIVE cleanUp(_, _)
cleanUp(keys, i) ==
    IF i >= Len(keys) THEN keys
    ELSE LET key == keys[i + 1]
         IN  IF startsWith(key, KeyPrefix) /\ key # currentKey /\ key # currentTimerKey
             THEN cleanUp(removeItem(keys, key), i + 1)
             ELSE cleanUp(keys, i + 1)

\* The component is constructed over a localStorage with any of the keys in
\* any order
InitStorage ==
    /\ phase = "storage"
    /\ \E held \in SUBSET StoredKeys :
          /\ localKeys \in [1..Cardinality(held) -> held]
          /\ \A i, j \in 1..Len(localKeys) : i # j => localKeys[i] # localKeys[j]
    /\ hidden = FALSE /\ NoServer
    /\ size = [rows |-> 0, cols |-> 0]
    /\ grid = << >>
    /\ clues = [across |-> << >>, down |-> << >>]
    /\ userGrid = << >>
    /\ selectedCell = Null
    /\ direction = "across"
    /\ clueMap = << >>
    /\ numberGrid = << >>
    /\ isComplete = FALSE
    /\ isCorrect = FALSE
    /\ isTimerRunning = TRUE
    /\ isPaused = FALSE
    /\ showSuccessMessage = FALSE
    /\ puzFile = << >>
    /\ puzResult = NoResult
    /\ NoStorage /\ TimerInit /\ NoLoader

\* The effect "Clean up old localStorage entries on mount"
cleanUpEffect ==
    /\ phase = "storage"
    /\ phase' = "cleaned"
    /\ localKeys' = cleanUp(localKeys, 0)
    /\ UNCHANGED <<puzzleVars, userGrid, selectedCell, direction, completionVars, isPaused,
                   uploadVars, storageVars, loaderVars, timerVars, hidden, serverVars>>

\* The two save effects that follow it: setItem of the grid key and of the
\* timer key
saveEffects ==
    /\ phase = "cleaned"
    /\ phase' = "saved"
    /\ localKeys' = setItem(setItem(localKeys, currentKey), currentTimerKey)
    /\ UNCHANGED <<puzzleVars, userGrid, selectedCell, direction, completionVars, isPaused,
                   uploadVars, storageVars, loaderVars, timerVars, hidden, serverVars>>

NextStorage == cleanUpEffect \/ saveEffects

SpecStorage == InitStorage /\ [][NextStorage]_vars

(***************************************************************************)
(* A session that is given another document: the parent renders the same   *)
(* Crossword with a new data prop.  The documents of the model have the    *)
(* size of the one they replace.                                           *)
(***************************************************************************)
InitSession == InitState(MaxTypeCells, MaxSide, {EmptyStr})

\* <Crossword data={newData} /> on a mounted component: the grid memo is
\* recomputed and the effects that depend on grid, size or clues run again;
\* no state initialiser runs
NewDocument ==
  \E flat \in [0..(size.rows * size.cols - 1) -> {Dot} \cup GridLetters] :
    /\ phase = "mounted"
    /\ grid' = convertFlatGridTo2D(flat, size.rows, size.cols)
    /\ LET built == buildClueMapAndNumberGrid(grid', size, clues)
           acrossClues == SelectSeq(built.clueMap, LAMBDA c : c.direction = "across")
           res == checkPuzzleCompletion(userGrid, grid')
       IN  /\ numberGrid' = built.numberGrid
           /\ clueMap' = built.clueMap
           /\ selectedCell' = IF Len(acrossClues) > 0
                              THEN <<acrossClues[1].startRow, acrossClues[1].startCol>>
                              ELSE selectedCell
           /\ isComplete' = res.isComplete
           /\ isCorrect' = res.isCorrect
           /\ isTimerRunning' = IF res.isCorrect THEN FALSE ELSE isTimerRunning
           /\ showSuccessMessage' = IF res.isCorrect THEN TRUE ELSE showSuccessMessage
    /\ UNCHANGED <<phase, size, clues, userGrid, direction, isPaused, outsideVars, timerVars>>

NextSession ==
    \/ Mount
    \/ \E key \in KeyboardKeys : handleKeyboardClick(key)
    \/ NewDocument

SpecSession == InitSession /\ [][NextSession]_vars

(***************************************************************************)
(* The clue indexer on its own: every grid of the larger bound, indexed by *)
(* the mount effect.                                                       *)
(***************************************************************************)
\* The puzzle of three rows CAT, black, DOG with two across clues
ExampleGrid == <<<<"C">>, <<"A">>, <<"T">>, Dot, Dot, Dot, <<"D">>, <<"O">>, <<"G">>>>
ExampleAcross == <<<<"1", ".", " ", "F", "e", "l", "i", "n", "e">>, <<"7", ".", " ", "C", "a", "n", "i", "n", "e">>>>

InitExample ==
    /\ phase = "constructed"
    /\ size = [rows |-> 3, cols |-> 3]
    /\ grid = convertFlatGridTo2D([k \in 0..8 |-> ExampleGrid[k + 1]], 3, 3)
    /\ clues = [across |-> ExampleAcross, down |-> << >>]
    /\ userGrid = [i \in 0..2 |-> [j \in 0..2 |-> EmptyStr]]
    /\ selectedCell = Null
    /\ direction = "across"
    /\ clueMap = << >>
    /\ numberGrid = << >>
    /\ isComplete = FALSE
    /\ isCorrect = FALSE
    /\ isTimerRunning = TRUE
    /\ isPaused = FALSE
    /\ showSuccessMessage = FALSE
    /\ puzFile = << >>
    /\ puzResult = NoResult
    /\ NoStorage /\ TimerInit /\ NoPage /\ NoLoader

InitIndex == InitState(MaxIndexCells, MaxSide, {EmptyStr}) \/ InitExample

NextIndex == Mount

SpecIndex == InitIndex /\ [][NextIndex]_vars

(***************************************************************************)
(* The completion checker on its own: any user grid of the grid's shape,   *)
(* with blank, lower-case and wrong entries, also on black cells.          *)
(***************************************************************************)
CheckEntries == {EmptyStr, <<" ">>, <<"a">>, <<"A">>, <<"B">>}

InitCheck == InitState(MaxCheckCells, MaxSide, CheckEntries)

\* const { isComplete, isCorrect } = checkPuzzleCompletion(userGrid, grid)
CheckCompletion ==
    /\ phase = "constructed"
    /\ phase' = "checked"
    /\ LET res == checkPuzzleCompletion(userGrid, grid)
       IN  isComplete' = res.isComplete /\ isCorrect' = res.isCorrect
    /\ UNCHANGED <<puzzleVars, userGrid, selectedCell, direction, isTimerRunning,
                   isPaused, showSuccessMessage, outsideVars, timerVars>>

NextCheck == CheckCompletion

SpecCheck == InitCheck /\ [][NextCheck]_vars

(***************************************************************************)
(* Typing on a keyboard that has letters outside A-Z: the cursor model on  *)
(* small grids, with the sharp s among the values an <input> reports.      *)
(***************************************************************************)
TypeValues == {<<"ß">>}

InitType == InitState(MaxTypeCells, MaxSide, {EmptyStr})

NextType ==
    \/ Next
    \/ \E rc \in FocusedCells, value \in TypeValues :
          handleInputChange(rc[1], rc[2], value)

SpecType == InitType /\ [][NextType]_vars

(***************************************************************************)
(* The clue indexer on clue lists of any shape: reordered, with a number   *)
(* twice, with a number no run of the grid has, with strings that do not   *)
(* parse.                                                                  *)
(***************************************************************************)
CluePool == {<<"1", ".", " ", "x">>, <<"2", ".", " ", "y">>, <<"3", ".", "z">>,
             <<"1", ".", " ", "w">>, <<"1", ".">>, <<"4", ".", " ", "v">>}

ClueLists == UNION {[1..n -> CluePool] : n \in 0..MaxClues}

InitClues ==
    /\ phase = "constructed"
    /\ \E rows \in 1..MaxSide, cols \in 1..MaxSide :
          /\ rows * cols <= MaxClueCells
          /\ size = [rows |-> rows, cols |-> cols]
          /\ \E flat \in [0..(rows * cols - 1) -> {Dot} \cup GridLetters] :
                grid = convertFlatGridTo2D(flat, rows, cols)
          /\ userGrid = [i \in 0..(rows - 1) |-> [j \in 0..(cols - 1) |-> EmptyStr]]
    /\ \E across \in ClueLists, down \in ClueLists :
          /\ Len(across) + Len(down) <= MaxClues
          /\ clues = [across |-> across, down |-> down]
    /\ selectedCell = Null
    /\ direction = "across"
    /\ clueMap = << >>
    /\ numberGrid = << >>
    /\ isComplete = FALSE
    /\ isCorrect = FALSE
    /\ isTimerRunning = TRUE
    /\ isPaused = FALSE
    /\ showSuccessMessage = FALSE
    /\ puzFile = << >>
    /\ puzResult = NoResult
    /\ NoStorage /\ TimerInit /\ NoPage /\ NoLoader

NextClues == Mount

SpecClues == InitClues /\ [][NextClues]_vars

(***************************************************************************)
(* The decoder of Across Lite .puz files.  A buffer is the sequence of its *)
(* bytes; the byte at offset k of the code is element k + 1.  The files of *)
(* the model hold NUL and printable ASCII outside the numeric header       *)
(* fields, on which windows-1252 and String.fromCharCode agree.            *)
(***************************************************************************)
\* The printable ASCII characters, from code 32 to code 126 (the grave
\* accent is written as its code point)
Ascii ==
    <<" ", "!", "\"", "#", "$", "%", "&", "'", "(", ")", "*", "+", ",", "-", ".", "/",
      "0", "1", "2", "3", "4", "5", "6", "7", "8", "9", ":", ";", "<", "=", ">", "?",
      "@", "A", "B", "C", "D", "E", "F", "G", "H", "I", "J", "K", "L", "M", "N", "O",
      "P", "Q", "R", "S", "T", "U", "V", "W", "X", "Y", "Z", "[", "\\", "]", "^", "_",
      "U+0060", "a", "b", "c", "d", "e", "f", "g", "h", "i", "j", "k", "l", "m", "n", "o",
      "p", "q", "r", "s", "t", "u", "v", "w", "x", "y", "z", "{", "|", "}", "~">>
\* The character of code 0
NUL == "NUL"
\* String.fromCharCode(byte)
fromCharCode(byte) == IF byte = 0 THEN NUL ELSE Ascii[byte - 31]
\* The code of a character: the inverse, used to write the files of the model
charCode(c) == IF c = NUL THEN 0 ELSE 31 + CHOOSE i \in 1..Len(Ascii) : Ascii[i] = c
\* new TextDecoder("windows-1252").decode(bytes)
decode(bytes) == [i \in 1..Len(bytes) |-> fromCharCode(bytes[i])]
\* buffer.slice(from, to)
slice(buffer, from, to) ==
    IF from >= Len(buffer) THEN << >>
    ELSE SubSeq(buffer, from + 1, IF to < Len(buffer) THEN to ELSE Len(buffer))

\* A property that is absent from the result object
Undefined == <<"undefined">>

isBlackCell(g, x, y, width) ==
    LET index == y * width + x
    IN  index < Len(g) /\ g[index + 1] = Dot

cellNeedsAcrossNumber(g, x, y, width, height) ==
    /\ x = 0 \/ isBlackCell(g, x - 1, y, width)
    /\ x + 1 < width /\ ~isBlackCell(g, x + 1, y, width)

cellNeedsDownNumber(g, x, y, width, height) ==
    /\ y = 0 \/ isBlackCell(g, x, y - 1, width)
    /\ y + 1 < height /\ ~isBlackCell(g, x, y + 1, width)

\* The body of the two loops of assignClueNumbers for the cell at position k
\* of the row-major scan
AssignCell(g, width, height, k, acc) ==
    LET x == k % width
        y == k \div width
        across == cellNeedsAcrossNumber(g, x, y, width, height)
        down   == cellNeedsDownNumber(g, x, y, width, height)
        n == acc.curCellNumber
    IN  IF isBlackCell(g, x, y, width) THEN acc
        ELSE [acrossNumbers |-> IF across THEN Append(acc.acrossNumbers, n)
                                ELSE acc.acrossNumbers,
              downNumbers |-> IF down THEN Append(acc.downNumbers, n)
                              ELSE acc.downNumbers,
              cellNumbers |-> IF across \/ down THEN acc.cellNumbers \cup {<<x, y, n>>}
                              ELSE acc.cellNumbers,
              curCellNumber |-> IF across \/ down THEN n + 1 ELSE n]

\* The loops of assignClueNumbers from position k on; the counter, which
\* starts at 1 and only grows, is read at each cell so that the cells are
\* evaluated one after the other
RECURSIVE AssignFrom(_, _, _, _, _)
AssignFrom(g, width, height, k, acc) ==
    IF k >= width * height \/ acc.curCellNumber < 1 THEN acc
    ELSE AssignFrom(g, width, height, k + 1, AssignCell(g, width, height, k, acc))

assignClueNumbers(g, width, height) ==
    AssignFrom(g, width, height, 0,
               [acrossNumbers |-> << >>, downNumbers |-> << >>,
                cellNumbers |-> {}, curCellNumber |-> 1])

\* while (end < buffer.length && buffer[end] !== 0) end++
RECURSIVE StringEnd(_, _)
StringEnd(buffer, end) ==
    IF end < Len(buffer) /\ buffer[end + 1] # 0 THEN StringEnd(buffer, end + 1) ELSE end

readNullTerminatedString(buffer, offset) ==
    LET end == StringEnd(buffer, offset)
    IN  [value |-> decode(slice(buffer, offset, end)), nextOffset |-> end + 1]

\* buffer[offset] | (buffer[offset + 1] << 8)
readShort(buffer, offset) == buffer[offset + 1] + 256 * buffer[offset + 2]

\* The position of the first ">" of s at or after position i, 0 when none
RECURSIVE FindClose(_, _)
FindClose(s, i) ==
    IF i > Len(s) THEN 0 ELSE IF s[i] = ">" THEN i ELSE FindClose(s, i + 1)

\* text.replace(/<[^>]*>/g, "")
RECURSIVE StripTags(_)
StripTags(s) ==
    IF Len(s) = 0 THEN s
    ELSE IF s[1] = "<" /\ FindClose(s, 2) # 0
    THEN StripTags(SubSeq(s, FindClose(s, 2) + 1, Len(s)))
    ELSE <<s[1]>> \o StripTags(Tail(s))

\* s.replace(new RegExp(pattern, "g"), replacement) for a pattern of plain
\* characters
RECURSIVE ReplaceAll(_, _, _)
ReplaceAll(s, pattern, replacement) ==
    IF Len(s) < Len(pattern) THEN s
    ELSE IF SubSeq(s, 1, Len(pattern)) = pattern
    THEN replacement \o ReplaceAll(SubSeq(s, Len(pattern) + 1, Len(s)), pattern, replacement)
    ELSE <<s[1]>> \o ReplaceAll(Tail(s), pattern, replacement)

\* The entries of the entities table, in the order Object.entries gives them
\* (a character outside ASCII is written as its code point, "U+2014")
Quote == "\""
Apostrophe == "'"
Entities ==
    <<<<<<"&", "a", "m", "p", ";">>, <<"&">>>>,
      <<<<"&", "l", "t", ";">>, <<"<">>>>,
      <<<<"&", "g", "t", ";">>, <<">">>>>,
      <<<<"&", "q", "u", "o", "t", ";">>, <<Quote>>>>,
      <<<<"&", "a", "p", "o", "s", ";">>, <<Apostrophe>>>>,
      <<<<"&", "n", "b", "s", "p", ";">>, <<" ">>>>,
      <<<<"&", "#", "3", "9", ";">>, <<Apostrophe>>>>,
      <<<<"&", "#", "3", "4", ";">>, <<Quote>>>>,
      <<<<"&", "m", "d", "a", "s", "h", ";">>, <<"U+2014">>>>,
      <<<<"&", "n", "d", "a", "s", "h", ";">>, <<"U+2013">>>>,
      <<<<"&", "h", "e", "l", "l", "i", "p", ";">>, <<"U+2026">>>>,
      <<<<"&", "b", "u", "l", "l", ";">>, <<"U+2022">>>>,
      <<<<"&", "m", "i", "d", "d", "o", "t", ";">>, <<"U+00B7">>>>,
      <<<<"&", "l", "s", "q", "u", "o", ";">>, <<Apostrophe>>>>,
      <<<<"&", "r", "s", "q", "u", "o", ";">>, <<Apostrophe>>>>,
      <<<<"&", "l", "d", "q", "u", "o", ";">>, <<Quote>>>>,
      <<<<"&", "r", "d", "q", "u", "o", ";">>, <<Quote>>>>>>

\* for (const [entity, char] of Object.entries(entities)) cleaned = ...
RECURSIVE DecodeEntities(_, _)
DecodeEntities(s, i) ==
    IF i > Len(Entities) THEN s
    ELSE DecodeEntities(ReplaceAll(s, Entities[i][1], Entities[i][2]), i + 1)

HexDigits == <<"0", "1", "2", "3", "4", "5", "6", "7", "8", "9",
               "a", "b", "c", "d", "e", "f">>
UpperHexDigits == <<"0", "1", "2", "3", "4", "5", "6", "7", "8", "9",
                    "A", "B", "C", "D", "E", "F">>
IsHexDigit(c) == \E i \in 1..16 : HexDigits[i] = c \/ UpperHexDigits[i] = c
HexValue(c) == (CHOOSE i \in 1..16 : HexDigits[i] = c \/ UpperHexDigits[i] = c) - 1
IsDigitOf(c, hex) == IF hex THEN IsHexDigit(c) ELSE IsDigit(c)
\* Length of the longest prefix of s made of digits of the base
RECURSIVE NumeralPrefix(_, _)
NumeralPrefix(s, hex) ==
    IF Len(s) > 0 /\ IsDigitOf(Head(s), hex) THEN 1 + NumeralPrefix(Tail(s), hex) ELSE 0
\* parseInt(num, 10) and parseInt(hex, 16)
RECURSIVE ParseNumeral(_, _)
ParseNumeral(ds, hex) ==
    IF Len(ds) = 0 THEN 0
    ELSE (IF hex THEN 16 ELSE 10) * ParseNumeral(SubSeq(ds, 1, Len(ds) - 1), hex)
           + (IF hex THEN HexValue(ds[Len(ds)]) ELSE DigitValue(ds[Len(ds)]))

\* cleaned.replace(/&#(\d+);/g, ...) and cleaned.replace(/&#x([0-9A-Fa-f]+);/g, ...):
\* each numeric entity becomes the character of its code
RECURSIVE DecodeNumeric(_, _)
DecodeNumeric(s, hex) ==
    LET prefix == IF hex THEN <<"&", "#", "x">> ELSE <<"&", "#">>
        rest   == SubSeq(s, Len(prefix) + 1, Len(s))
        d      == NumeralPrefix(rest, hex)
    IN  IF Len(s) = 0 THEN s
        ELSE IF /\ Len(s) > Len(prefix) /\ SubSeq(s, 1, Len(prefix)) = prefix
                /\ d >= 1 /\ Len(rest) > d /\ rest[d + 1] = ";"
        THEN <<fromCharCode(ParseNumeral(SubSeq(rest, 1, d), hex))>>
                \o DecodeNumeric(SubSeq(rest, d + 2, Len(rest)), hex)
        ELSE <<s[1]>> \o DecodeNumeric(Tail(s), hex)

cleanHtmlFromClue(text) ==
    DecodeNumeric(DecodeNumeric(DecodeEntities(StripTags(text), 1), FALSE), TRUE)

\* for (let i = 0; i < numClues; i++) { read a string, clean it, push it }
RECURSIVE ReadClues(_, _, _, _, _)
ReadClues(buffer, offset, i, numClues, clueStrings) ==
    IF i >= numClues THEN [clueStrings |-> clueStrings, offset |-> offset]
    ELSE LET read == readNullTerminatedString(buffer, offset)
         IN  ReadClues(buffer, read.nextOffset, i + 1, numClues,
                       Append(clueStrings, cleanHtmlFromClue(read.value)))

\* A split that gives a number present in both lists to down first
RECURSIVE SplitClues_DownFirst(_, _, _, _, _, _, _, _)
SplitClues_DownFirst(clueStrings, acrossNumbers, downNumbers, clueIndex, acrossIndex, downIndex, acrossClues, downClues) ==
    LET hasAcross == acrossIndex < Len(acrossNumbers)
        hasDown   == downIndex < Len(downNumbers)
        isAcross  == IF hasAcross /\ hasDown
                     THEN acrossNumbers[acrossIndex + 1] < downNumbers[downIndex + 1]
                     ELSE hasAcross \/ ~hasDown
        label     == IF isAcross
                     THEN IF hasAcross THEN NumberToString(acrossNumbers[acrossIndex + 1])
                          ELSE <<"I", "n", "f", "i", "n", "i", "t", "y">>
                     ELSE NumberToString(downNumbers[downIndex + 1])
        clue      == label \o <<".", " ">> \o clueStrings[clueIndex + 1]
    IN  IF clueIndex >= Len(clueStrings)
        THEN [across |-> acrossClues, down |-> downClues]
        ELSE IF isAcross
        THEN SplitClues_DownFirst(clueStrings, acrossNumbers, downNumbers, clueIndex + 1,
                        acrossIndex + 1, downIndex, Append(acrossClues, clue), downClues)
        ELSE SplitClues_DownFirst(clueStrings, acrossNumbers, downNumbers, clueIndex + 1,
                        acrossIndex, downIndex + 1, acrossClues, Append(downClues, clue))

\* while (clueIndex < clueStrings.length): the next clue goes to the direction
\* whose next number is the smaller one, across on a tie; a list that has run
\* out counts as Infinity
RECURSIVE SplitClues(_, _, _, _, _, _, _, _)
SplitClues(clueStrings, acrossNumbers, downNumbers, clueIndex, acrossIndex, downIndex, acrossClues, downClues) ==
    LET hasAcross == acrossIndex < Len(acrossNumbers)
        hasDown   == downIndex < Len(downNumbers)
        isAcross  == IF hasAcross /\ hasDown
                     THEN acrossNumbers[acrossIndex + 1] <= downNumbers[downIndex + 1]
                     ELSE hasAcross \/ ~hasDown
        label     == IF isAcross
                     THEN IF hasAcross THEN NumberToString(acrossNumbers[acrossIndex + 1])
                          ELSE <<"I", "n", "f", "i", "n", "i", "t", "y">>
                     ELSE NumberToString(downNumbers[downIndex + 1])
        clue      == label \o <<".", " ">> \o clueStrings[clueIndex + 1]
    IN  IF clueIndex >= Len(clueStrings)
        THEN [across |-> acrossClues, down |-> downClues]
        ELSE IF isAcross
        THEN SplitClues(clueStrings, acrossNumbers, downNumbers, clueIndex + 1,
                        acrossIndex + 1, downIndex, Append(acrossClues, clue), downClues)
        ELSE SplitClues(clueStrings, acrossNumbers, downNumbers, clueIndex + 1,
                        acrossIndex, downIndex + 1, acrossClues, Append(downClues, clue))

\* The marker that parsePuzFile looks for at offset 0x02
Magic == <<"A", "C", "R", "O", "S", "S", "&", "D", "O", "W", "N">>
MagicError == <<"I", "n", "v", "a", "l", "i", "d", " ", ".", "p", "u", "z", " ", "f", "i", "l", "e", ":", " ", "m", "i", "s", "s", "i", "n", "g", " ", "A", "C", "R", "O", "S", "S", "&", "D", "O", "W", "N", " ", "m", "a", "g", "i", "c", " ", "s", "t", "r", "i", "n", "g">>
DimensionError(width, height) ==
    <<"I", "n", "v", "a", "l", "i", "d", " ", "p", "u", "z", "z", "l", "e", " ", "d", "i", "m", "e", "n", "s", "i", "o", "n", "s", ":", " ">> \o NumberToString(width) \o <<"x">> \o NumberToString(height)

\* The check of the dimensions that lets a height of zero through
parsePuzFile_WidthOnly(buffer) ==
    IF SubSeq(decode(slice(buffer, 2, 14)), 1, Len(Magic)) # Magic
    THEN [outcome |-> "error", message |-> MagicError]
    ELSE IF buffer[45] < 1 \/ buffer[45] > 50 \/ buffer[46] > 50
    THEN [outcome |-> "error", message |-> DimensionError(buffer[45], buffer[46])]
    ELSE [outcome |-> "document"]

\* A decoder that reads the strings right after the solution
parsePuzFile_NoSkip(buffer) ==
    LET magicString == decode(slice(buffer, 2, 14))
        width       == buffer[45]
        height      == buffer[46]
        numClues    == readShort(buffer, 46)
        gridSize    == width * height
        solution    == [i \in 1..Len(slice(buffer, 52, 52 + gridSize)) |->
                           <<fromCharCode(slice(buffer, 52, 52 + gridSize)[i])>>]
        title       == readNullTerminatedString(buffer, 52 + gridSize)
        author      == readNullTerminatedString(buffer, title.nextOffset)
        copyright   == readNullTerminatedString(buffer, author.nextOffset)
        read        == ReadClues(buffer, copyright.nextOffset, 0, numClues, << >>)
        notes       == IF read.offset < Len(buffer)
                       THEN readNullTerminatedString(buffer, read.offset).value
                       ELSE EmptyStr
        assigned    == assignClueNumbers(solution, width, height)
        split       == SplitClues(read.clueStrings, assigned.acrossNumbers,
                                  assigned.downNumbers, 0, 0, 0, << >>, << >>)
    IN  IF ~(Len(magicString) >= Len(Magic)
               /\ SubSeq(magicString, 1, Len(Magic)) = Magic)
        THEN [outcome |-> "error", message |-> MagicError]
        ELSE IF width < 1 \/ height < 1 \/ width > 50 \/ height > 50
        THEN [outcome |-> "error", message |-> DimensionError(width, height)]
        ELSE [outcome |-> "document",
              document |->
                 [title |-> IF Truthy(title.value) THEN title.value
                            ELSE <<"U", "n", "t", "i", "t", "l", "e", "d", " ", "P", "u", "z", "z", "l", "e">>,
                  author |-> IF Truthy(author.value) THEN author.value
                             ELSE <<"U", "n", "k", "n", "o", "w", "n">>,
                  size |-> [rows |-> height, cols |-> width],
                  clues |-> [across |-> split.across, down |-> split.down],
                  grid |-> solution,
                  copyright |-> IF Truthy(copyright.value) THEN copyright.value
                                ELSE Undefined,
                  notes |-> IF Truthy(notes) THEN notes ELSE Undefined]]

\* The result of parsePuzFile on a buffer that holds the whole 0x34-byte
\* header: the error thrown, or the document returned
parsePuzFile(buffer) ==
    LET magicString == decode(slice(buffer, 2, 14))
        width       == buffer[45]
        height      == buffer[46]
        numClues    == readShort(buffer, 46)
        gridSize    == width * height
        solution    == [i \in 1..Len(slice(buffer, 52, 52 + gridSize)) |->
                           <<fromCharCode(slice(buffer, 52, 52 + gridSize)[i])>>]
        title       == readNullTerminatedString(buffer, 52 + gridSize + gridSize)
        author      == readNullTerminatedString(buffer, title.nextOffset)
        copyright   == readNullTerminatedString(buffer, author.nextOffset)
        read        == ReadClues(buffer, copyright.nextOffset, 0, numClues, << >>)
        notes       == IF read.offset < Len(buffer)
                       THEN readNullTerminatedString(buffer, read.offset).value
                       ELSE EmptyStr
        assigned    == assignClueNumbers(solution, width, height)
        split       == SplitClues(read.clueStrings, assigned.acrossNumbers,
                                  assigned.downNumbers, 0, 0, 0, << >>, << >>)
    IN  IF ~(Len(magicString) >= Len(Magic)
               /\ SubSeq(magicString, 1, Len(Magic)) = Magic)
        THEN [outcome |-> "error", message |-> MagicError]
        ELSE IF width < 1 \/ height < 1 \/ width > 50 \/ height > 50
        THEN [outcome |-> "error", message |-> DimensionError(width, height)]
        ELSE [outcome |-> "document",
              document |->
                 [title |-> IF Truthy(title.value) THEN title.value
                            ELSE <<"U", "n", "t", "i", "t", "l", "e", "d", " ", "P", "u", "z", "z", "l", "e">>,
                  author |-> IF Truthy(author.value) THEN author.value
                             ELSE <<"U", "n", "k", "n", "o", "w", "n">>,
                  size |-> [rows |-> height, cols |-> width],
                  clues |-> [across |-> split.across, down |-> split.down],
                  grid |-> solution,
                  copyright |-> IF Truthy(copyright.value) THEN copyright.value
                                ELSE Undefined,
                  notes |-> IF Truthy(notes) THEN notes ELSE Undefined]]

(***************************************************************************)
(* The files handed to the decoder: files of the .puz layout, whole, with  *)
(* the marker and the two dimension bytes as written or damaged.           *)
(***************************************************************************)
\* The bytes of a string
bytesOf(s) == [i \in 1..Len(s) |-> charCode(s[i])]
Zeros(n) == [i \in 1..n |-> 0]

\* The twelve bytes at offset 0x02: the marker and its NUL, or damaged ones
MagicFields == {bytesOf(Magic) \o <<0>>,
                bytesOf(<<"A", "C", "R", "O", "S", "S", "&", "D", "O", "W", "X">>) \o <<0>>,
                bytesOf(<<"X", "C", "R", "O", "S", "S", "&", "D", "O", "W", "N">>) \o <<0>>,
                bytesOf(<<"a", "c", "r", "o", "s", "s", "&", "d", "o", "w", "n">>) \o <<0>>,
                Zeros(12)}
PuzWidths == {0, 1, 2, 50, 51, 255}
PuzHeights == {0, 1, 2, 51}
\* The clue strings of the files
PuzClueTexts == {<<"x">>, <<"<", "b", ">", "y", "<", "/", "b", ">", "&", "a", "m", "p", ";", "z">>}
\* The notes of the files: none, or one character
PuzNotes == {EmptyStr, <<"n">>}

\* The solutions of a width x height file: every pattern of letters and
\* black cells for a small grid, the all-letter grid for a large one
PuzSolutions(width, height) ==
    IF width * height <= MaxPuzCells
    THEN [1..(width * height) -> {charCode("."), charCode("A")}]
    ELSE {[i \in 1..(width * height) |-> charCode("A")]}

RECURSIVE Terminated(_)
Terminated(strings) ==
    IF Len(strings) = 0 THEN << >>
    ELSE bytesOf(Head(strings)) \o <<0>> \o Terminated(Tail(strings))

\* A file of the layout: checksum, magic field, the rest of the header with
\* width, height and clue count at 0x2C..0x2F, solution, player state, and
\* the strings title, author, copyright, clues and notes
PuzBytes(magic, width, height, solution, clueTexts, notes) ==
    <<0, 0>> \o magic \o Zeros(30)
        \o <<width, height, Len(clueTexts) % 256, Len(clueTexts) \div 256>> \o Zeros(4)
        \o solution \o [i \in 1..Len(solution) |-> charCode("-")]
        \o Terminated(<<<<"T">>, <<"A">>, EmptyStr>> \o clueTexts)
        \o (IF notes = EmptyStr THEN << >> ELSE bytesOf(notes) \o <<0>>)

\* Where a file is cut off: nowhere, or so that it ends with the header, one
\* byte before the end of the solution block, one byte before the end of the
\* player-state block, or after the title with the author and all that
\* follows it missing
PuzCuts == {"whole", "header", "solution", "state", "strings"}
KeptLength(file, width, height, cut) ==
    LET gridSize == width * height
        kept == CASE cut = "header" -> 52
                  [] cut = "solution" -> 52 + gridSize - 1
                  [] cut = "state" -> 52 + 2 * gridSize - 1
                  [] cut = "strings" -> 52 + 2 * gridSize + 2
                  [] OTHER -> Len(file)
    IN  IF kept < 52 THEN 52 ELSE IF kept > Len(file) THEN Len(file) ELSE kept
Truncate(file, width, height, cut) == SubSeq(file, 1, KeptLength(file, width, height, cut))

InitPuz ==
    /\ phase = "upload"
    /\ \E magic \in MagicFields, width \in PuzWidths, height \in PuzHeights,
          notes \in PuzNotes, cut \in PuzCuts :
          \E solution \in PuzSolutions(width, height),
             clueTexts \in UNION {[1..n -> PuzClueTexts] : n \in 0..MaxPuzClues} :
                puzFile = Truncate(PuzBytes(magic, width, height, solution, clueTexts, notes),
                                   width, height, cut)
    /\ puzResult = NoResult
    /\ NoStorage /\ TimerInit /\ NoPage /\ NoLoader
    /\ size = [rows |-> 0, cols |-> 0]
    /\ grid = << >>
    /\ clues = [across |-> << >>, down |-> << >>]
    /\ userGrid = << >>
    /\ selectedCell = Null
    /\ direction = "across"
    /\ clueMap = << >>
    /\ numberGrid = << >>
    /\ isComplete = FALSE
    /\ isCorrect = FALSE
    /\ isTimerRunning = TRUE
    /\ isPaused = FALSE
    /\ showSuccessMessage = FALSE

\* await parsePuzFile(file)
Upload ==
    /\ phase = "upload"
    /\ puzResult = NoResult
    /\ puzResult' = parsePuzFile(puzFile)
    /\ UNCHANGED <<phase, puzFile, puzzleVars, userGrid, selectedCell, direction,
                   completionVars, isPaused, storageVars, loaderVars, timerVars, pageVars,
                   serverVars>>

NextPuz == Upload

SpecPuz == InitPuz /\ [][NextPuz]_vars

(***************************************************************************)
(* From file to board: a whole, valid .puz file is decoded, the document   *)
(* is given to the Crossword component as its data, and the component      *)
(* mounts.                                                                 *)
(***************************************************************************)
\* The file of one row CAT with the clue string "1. Feline"
ExampleClue == <<"1", ".", " ", "F", "e", "l", "i", "n", "e">>
ExampleFile == PuzBytes(bytesOf(Magic) \o <<0>>, 3, 1, bytesOf(<<"C", "A", "T">>), <<ExampleClue>>, EmptyStr)

InitLoad ==
    /\ phase = "upload"
    /\ \/ \E width \in 1..MaxSide, height \in 1..MaxSide, notes \in PuzNotes :
             /\ width * height <= MaxPuzCells
             /\ \E solution \in PuzSolutions(width, height),
                   clueTexts \in UNION {[1..n -> PuzClueTexts] : n \in 0..MaxPuzClues} :
                      puzFile = PuzBytes(bytesOf(Magic) \o <<0>>, width, height, solution,
                                         clueTexts, notes)
       \/ puzFile = ExampleFile
    /\ puzResult = NoResult
    /\ NoStorage /\ TimerInit /\ NoPage /\ NoLoader
    /\ size = [rows |-> 0, cols |-> 0]
    /\ grid = << >>
    /\ clues = [across |-> << >>, down |-> << >>]
    /\ userGrid = << >>
    /\ selectedCell = Null
    /\ direction = "across"
    /\ clueMap = << >>
    /\ numberGrid = << >>
    /\ isComplete = FALSE
    /\ isCorrect = FALSE
    /\ isTimerRunning = TRUE
    /\ isPaused = FALSE
    /\ showSuccessMessage = FALSE

\* <Crossword data={document} />: the props and the state initialisers
Load ==
    /\ phase = "upload"
    /\ puzResult # NoResult /\ puzResult.outcome = "document"
    /\ phase' = "constructed"
    /\ LET data == puzResult.document
       IN  /\ size' = data.size
           /\ grid' = convertFlatGridTo2D([k \in 0..(Len(data.grid) - 1) |-> data.grid[k + 1]],
                                          data.size.rows, data.size.cols)
           /\ clues' = data.clues
           /\ userGrid' = [i \in 0..(data.size.rows - 1) |->
                              [j \in 0..(data.size.cols - 1) |-> EmptyStr]]
    /\ UNCHANGED <<outsideVars, timerVars, clueMap, numberGrid, selectedCell, direction,
                   completionVars, isPaused>>

NextLoad == Upload \/ Load \/ Mount

SpecLoad == InitLoad /\ [][NextLoad]_vars

(***************************************************************************)
(* The saved user grid.  The later revision of the component keeps the     *)
(* user grid in localStorage under crossword_<fileName> and reads it back  *)
(* in the userGrid state initialiser.  A JSON value is a record tagged     *)
(* with its type; JSON.parse is a recursive-descent parse of a text        *)
(* without white space, for arrays, strings without escapes, unsigned      *)
(* integers and null.                                                      *)
(***************************************************************************)
RECURSIVE ParseValue(_)
RECURSIVE ParseItems(_, _)
RECURSIVE ParseMembers(_, _, _)
ParseValue(s) ==
    IF Len(s) = 0 THEN [ok |-> FALSE]
    ELSE IF Head(s) = "["
    THEN IF Len(s) > 1 /\ s[2] = "]"
         THEN [ok |-> TRUE, value |-> [type |-> "array", items |-> << >>], rest |-> SubSeq(s, 3, Len(s))]
         ELSE ParseItems(Tail(s), << >>)
    ELSE IF Head(s) = "{"
    THEN IF Len(s) > 1 /\ s[2] = "}"
         THEN [ok |-> TRUE, value |-> [type |-> "object", keys |-> << >>, values |-> << >>],
               rest |-> SubSeq(s, 3, Len(s))]
         ELSE ParseMembers(Tail(s), << >>, << >>)
    ELSE IF Head(s) = Quote
    THEN LET closes == {i \in 2..Len(s) : s[i] = Quote}
             close == CHOOSE i \in closes : \A j \in closes : i <= j
         IN  IF closes = {} THEN [ok |-> FALSE]
             ELSE [ok |-> TRUE, value |-> [type |-> "string", value |-> SubSeq(s, 2, close - 1)],
                   rest |-> SubSeq(s, close + 1, Len(s))]
    ELSE IF IsDigit(Head(s))
    THEN LET n == NumeralPrefix(s, FALSE)
         IN  IF n > 1 /\ Head(s) = "0" THEN [ok |-> FALSE]
             ELSE [ok |-> TRUE, value |-> [type |-> "number", value |-> ParseNumeral(SubSeq(s, 1, n), FALSE)],
                   rest |-> SubSeq(s, n + 1, Len(s))]
    ELSE IF Len(s) >= 4 /\ SubSeq(s, 1, 4) = <<"n", "u", "l", "l">>
    THEN [ok |-> TRUE, value |-> [type |-> "null"], rest |-> SubSeq(s, 5, Len(s))]
    ELSE [ok |-> FALSE]

ParseItems(s, acc) ==
    LET v == ParseValue(s)
    IN  IF ~v.ok THEN [ok |-> FALSE]
        ELSE IF Len(v.rest) = 0 THEN [ok |-> FALSE]
        ELSE IF Head(v.rest) = "," THEN ParseItems(Tail(v.rest), Append(acc, v.value))
        ELSE IF Head(v.rest) = "]"
        THEN [ok |-> TRUE, value |-> [type |-> "array", items |-> Append(acc, v.value)], rest |-> Tail(v.rest)]
        ELSE [ok |-> FALSE]

\* The members of an object, after its opening brace: "key":value, ... }
ParseMembers(s, keys, values) ==
    LET k == ParseValue(s)
        v == ParseValue(Tail(k.rest))
    IN  IF ~k.ok \/ k.value.type # "string" THEN [ok |-> FALSE]
        ELSE IF Len(k.rest) = 0 \/ Head(k.rest) # ":" THEN [ok |-> FALSE]
        ELSE IF ~v.ok THEN [ok |-> FALSE]
        ELSE IF Len(v.rest) = 0 THEN [ok |-> FALSE]
        ELSE IF Head(v.rest) = ","
        THEN ParseMembers(Tail(v.rest), Append(keys, k.value.value), Append(values, v.value))
        ELSE IF Head(v.rest) = "}"
        THEN [ok |-> TRUE,
              value |-> [type |-> "object", keys |-> Append(keys, k.value.value),
                         values |-> Append(values, v.value)],
              rest |-> Tail(v.rest)]
        ELSE [ok |-> FALSE]

\* JSON.parse(text): the value, or a SyntaxError
JSONparse(text) ==
    LET v == ParseValue(text)
    IN  IF v.ok /\ Len(v.rest) = 0 THEN [ok |-> TRUE, value |-> v.value] ELSE [ok |-> FALSE]

\* The JavaScript value of a JSON value: an array is a function on 0..n-1
RECURSIVE ToJs(_)
ToJs(v) ==
    CASE v.type = "array"  -> [i \in 0..(Len(v.items) - 1) |-> ToJs(v.items[i + 1])]
      [] v.type = "string" -> v.value
      [] v.type = "number" -> v.value
      [] v.type = "null"   -> Null
      [] v.type = "object" -> [k \in {v.keys[i] : i \in 1..Len(v.keys)} |->
                                  ToJs(v.values[CHOOSE i \in 1..Len(v.keys) :
                                           v.keys[i] = k /\ \A j \in (i + 1)..Len(v.keys) : v.keys[j] # k])]

\* useState<string[][]>(() => { ... }) with data.fileName set, in a browser
userGridInitializer(saved, sz) ==
    LET empty == [i \in 0..(sz.rows - 1) |-> [j \in 0..(sz.cols - 1) |-> EmptyStr]]
        parsed == JSONparse(saved)
    IN  IF saved = Null THEN empty
        ELSE IF ~parsed.ok THEN empty
        ELSE IF parsed.value.type = "array" /\ Len(parsed.value.items) = sz.rows
        THEN ToJs(parsed.value)
        ELSE empty

\* The texts found in localStorage: none, snapshots of several shapes, JSON
\* that is no array, and text that is no JSON
SavedTexts ==
    {Null,
     <<"[", "[", Quote, Quote, "]", "]">>,
     <<"[", "[", Quote, "A", Quote, "]", "]">>,
     <<"[", "[", Quote, "A", Quote, ",", Quote, Quote, "]", "]">>,
     <<"[", "[", Quote, "A", Quote, "]", ",", "[", Quote, Quote, "]", "]">>,
     <<"[", "[", Quote, "A", Quote, ",", Quote, Quote, ",", Quote, "B", Quote, "]", "]">>,
     <<"[", "]">>,
     <<"n", "u", "l", "l">>,
     <<"5">>,
     <<Quote, "A", Quote>>,
     <<"[", "[", Quote, "A", Quote>>,
     <<"x">>}

\* The component is about to be constructed: the props are known, no state yet
InitRestore ==
    /\ phase = "props"
    /\ \E rows \in 1..MaxSide, cols \in 1..MaxSide :
          /\ rows * cols <= MaxSavedCells
          /\ size = [rows |-> rows, cols |-> cols]
          /\ \E flat \in [0..(rows * cols - 1) -> {Dot} \cup GridLetters] :
                grid = convertFlatGridTo2D(flat, rows, cols)
          /\ clues = FullClues(rows * cols)
    /\ savedState \in SavedTexts
    /\ userGrid = << >>
    /\ selectedCell = Null
    /\ direction = "across"
    /\ clueMap = << >>
    /\ numberGrid = << >>
    /\ isComplete = FALSE
    /\ isCorrect = FALSE
    /\ isTimerRunning = TRUE
    /\ isPaused = FALSE
    /\ showSuccessMessage = FALSE
    /\ puzFile = << >>
    /\ puzResult = NoResult
    /\ TimerInit /\ NoPage /\ NoLoader

\* The first render: the state initialisers run
Construct ==
    /\ phase = "props"
    /\ phase' = "constructed"
    /\ userGrid' = userGridInitializer(savedState, size)
    /\ UNCHANGED <<puzzleVars, selectedCell, direction, completionVars, isPaused,
                   outsideVars, timerVars>>

NextRestore == Construct

SpecRestore == InitRestore /\ [][NextRestore]_vars

(***************************************************************************)
(* The loader of the home route.  The bucket maps keys to bodies; a key    *)
(* and a body are texts.  The body of a stored puzzle is a JSON text; the  *)
(* puzzles of the model are JSON strings that carry their key.             *)
(***************************************************************************)
BucketKeys ==
    {<<"2", "0", "2", "6", "-", "0", "1", "-", "0", "2", ".", "j", "s", "o", "n">>,
     <<"2", "0", "2", "6", "-", "0", "1", "-", "0", "3", ".", "j", "s", "o", "n">>,
     <<"2", "0", "2", "6", "-", "0", "1", "-", "0", "4", ".", "j", "s", "o", "n">>,
     <<"n", "o", "t", "e", "s", ".", "t", "x", "t">>}

\* /^\d{4}-\d{2}-\d{2}\.json$/.test(key)
datePattern(key) ==
    /\ Len(key) = 15
    /\ \A i \in {1, 2, 3, 4, 6, 7, 9, 10} : IsDigit(key[i])
    /\ key[5] = "-" /\ key[8] = "-"
    /\ SubSeq(key, 11, 15) = <<".", "j", "s", "o", "n">>

\* a.localeCompare(b) < 0, for texts of ASCII characters without letters of
\* both cases: the order of the character codes
RECURSIVE localeCompareLess(_, _)
localeCompareLess(a, b) ==
    IF Len(b) = 0 THEN FALSE
    ELSE IF Len(a) = 0 THEN TRUE
    ELSE IF Head(a) = Head(b) THEN localeCompareLess(Tail(a), Tail(b))
    ELSE charCode(Head(a)) < charCode(Head(b))

\* data/default.json
DefaultPuzzle == <<"d", "e", "f", "a", "u", "l", "t">>

\* The loader before any request: a bucket, a date, an empty cache
InitLoader ==
    /\ phase = "loader"
    /\ \E keys \in SUBSET BucketKeys :
          bucket \in [keys -> {EmptyStr, <<"x">>} \cup {<<Quote>> \o k \o <<Quote>> : k \in BucketKeys}]
    /\ \A k \in DOMAIN bucket : bucket[k] \in {EmptyStr, <<"x">>, <<Quote>> \o k \o <<Quote>>}
    /\ today \in {SubSeq(k, 1, 10) : k \in {q \in BucketKeys : datePattern(q)}}
    /\ cachedPuzzle = Null
    /\ cachedPuzzleKey = Null
    /\ loaderData = Null
    /\ size = [rows |-> 0, cols |-> 0]
    /\ grid = << >>
    /\ clues = [across |-> << >>, down |-> << >>]
    /\ userGrid = << >>
    /\ selectedCell = Null
    /\ direction = "across"
    /\ clueMap = << >>
    /\ numberGrid = << >>
    /\ isComplete = FALSE
    /\ isCorrect = FALSE
    /\ isTimerRunning = TRUE
    /\ isPaused = FALSE
    /\ showSuccessMessage = FALSE
    /\ puzFile = << >>
    /\ puzResult = NoResult
    /\ NoStorage /\ TimerInit /\ NoPage

\* The key of the GetObjectCommand a call sends (lines 56-61), or null when
\* the call returns before it: no dated key, or the cache holds the latest
sentGetObject(objects, cached, cachedKey) ==
    LET sortedFiles == {k \in DOMAIN objects : datePattern(k)}
        latestKey == CHOOSE k \in sortedFiles : \A q \in sortedFiles : ~localeCompareLess(k, q)
    IN  IF sortedFiles = {} THEN Null
        ELSE IF cached # Null /\ cachedKey = latestKey THEN Null
        ELSE latestKey

\* A loader that does not look at the cache
loader_NoCache ==
    /\ phase \in {"loader", "server"}
    /\ LET sortedFiles == {k \in DOMAIN bucket : datePattern(k)}
           latestKey == CHOOSE k \in sortedFiles : \A q \in sortedFiles : ~localeCompareLess(k, q)
           fallback == /\ loaderData' = DefaultPuzzle
                       /\ UNCHANGED <<cachedPuzzle, cachedPuzzleKey>>
       IN  IF sortedFiles = {} THEN fallback /\ getObjectKey' = Null
           ELSE /\ getObjectKey' = latestKey
                /\ IF bucket[latestKey] = EmptyStr \/ ~JSONparse(bucket[latestKey]).ok THEN fallback
                   ELSE LET puzzleData == ToJs(JSONparse(bucket[latestKey]).value)
                        IN  /\ cachedPuzzle' = puzzleData
                            /\ cachedPuzzleKey' = latestKey
                            /\ loaderData' = puzzleData
    /\ UNCHANGED <<phase, puzzleVars, userGrid, selectedCell, direction, completionVars,
                   isPaused, uploadVars, storageVars, timerVars, pageVars, formData,
                   actionData, calls, bucket, today>>

\* export async function loader(): one request, served without another
\* request or a bucket change in between
loader ==
    /\ phase \in {"loader", "server"}
    /\ LET sortedFiles == {k \in DOMAIN bucket : datePattern(k)}
           latestKey == CHOOSE k \in sortedFiles : \A q \in sortedFiles : ~localeCompareLess(k, q)
           fallback == /\ loaderData' = DefaultPuzzle
                       /\ UNCHANGED <<cachedPuzzle, cachedPuzzleKey>>
       IN  IF DOMAIN bucket = {} \/ sortedFiles = {} THEN fallback
           ELSE IF cachedPuzzle # Null /\ cachedPuzzleKey = latestKey
           THEN loaderData' = cachedPuzzle /\ UNCHANGED <<cachedPuzzle, cachedPuzzleKey>>
           ELSE IF bucket[latestKey] = EmptyStr THEN fallback
           ELSE IF ~JSONparse(bucket[latestKey]).ok THEN fallback
           ELSE LET puzzleData == ToJs(JSONparse(bucket[latestKey]).value)
                IN  /\ cachedPuzzle' = puzzleData
                    /\ cachedPuzzleKey' = latestKey
                    /\ loaderData' = puzzleData
    /\ getObjectKey' = sentGetObject(bucket, cachedPuzzle, cachedPuzzleKey)
    /\ UNCHANGED <<phase, puzzleVars, userGrid, selectedCell, direction, completionVars,
                   isPaused, uploadVars, storageVars, timerVars, pageVars, formData,
                   actionData, calls, bucket, today>>

NextLoader == loader

SpecLoader == InitLoader /\ [][NextLoader]_vars

(***************************************************************************)
(* src/app/routes/upload.tsx: the upload action.  The form carries a date  *)
(* and a file; the file's text is parsed with JSON.parse, validated, and   *)
(* stored unchanged under <date>.json.                                     *)
(***************************************************************************)
\* JSON values, and the text JSON.stringify writes for one, without spaces
Str(text) == [type |-> "string", value |-> text]
Num(n) == [type |-> "number", value |-> n]
Arr(items) == [type |-> "array", items |-> items]
Obj(keys, values) == [type |-> "object", keys |-> keys, values |-> values]

RECURSIVE JSONstringify(_)
RECURSIVE StringifyFrom(_, _)
JSONstringify(v) ==
    CASE v.type = "string" -> <<Quote>> \o v.value \o <<Quote>>
      [] v.type = "number" -> NumberToString(v.value)
      [] v.type = "null"   -> <<"n", "u", "l", "l">>
      [] v.type = "array"  -> <<"[">> \o StringifyFrom(v, 1) \o <<"]">>
      [] v.type = "object" -> <<"{">> \o StringifyFrom(v, 1) \o <<"}">>
\* The items (the members) from position i on, separated by commas
StringifyFrom(v, i) ==
    LET n == IF v.type = "array" THEN Len(v.items) ELSE Len(v.keys)
        one == IF v.type = "array" THEN JSONstringify(v.items[i])
               ELSE <<Quote>> \o v.keys[i] \o <<Quote, ":">> \o JSONstringify(v.values[i])
    IN  IF i > n THEN EmptyStr
        ELSE IF i = n THEN one
        ELSE one \o <<",">> \o StringifyFrom(v, i + 1)

AuthorKey == <<"a", "u", "t", "h", "o", "r">>
TitleKey == <<"t", "i", "t", "l", "e">>
SizeKey == <<"s", "i", "z", "e">>
RowsKey == <<"r", "o", "w", "s">>
ColsKey == <<"c", "o", "l", "s">>
CluesKey == <<"c", "l", "u", "e", "s">>
AcrossKey == <<"a", "c", "r", "o", "s", "s">>
DownKey == <<"d", "o", "w", "n">>
GridKey == <<"g", "r", "i", "d">>

\* puzzleData.<key>: the value of the last member of that name, or undefined
UndefinedValue == [type |-> "undefined"]
Prop(v, key) ==
    IF v.type = "object" /\ \E i \in 1..Len(v.keys) : v.keys[i] = key
    THEN v.values[CHOOSE i \in 1..Len(v.keys) :
                      v.keys[i] = key /\ \A j \in (i + 1)..Len(v.keys) : v.keys[j] # key]
    ELSE UndefinedValue
\* !value
Falsy(v) ==
    \/ v.type \in {"undefined", "null"}
    \/ v.type = "string" /\ v.value = EmptyStr
    \/ v.type = "number" /\ v.value = 0
\* typeof value === "object", for a value that is not null
TypeofObject(v) == v.type \in {"object", "array"}

IsUpperLetter(ch) == charCode(ch) >= 65 /\ charCode(ch) <= 90
IsLetter(ch) == IsUpperLetter(ch) \/ (charCode(ch) >= 97 /\ charCode(ch) <= 122)

\* /^\d+\.\s*.+/.test(clue)
cluePattern(clue) ==
    LET d == NumeralPrefix(clue, FALSE)
        rest == SubSeq(clue, d + 2, Len(clue))
    IN  /\ d >= 1 /\ Len(clue) > d /\ clue[d + 1] = "."
        /\ \E k \in 0..(Len(rest) - 1) :
              /\ \A i \in 1..k : IsSpace(rest[i])
              /\ rest[k + 1] \notin {"\n", "\r"}
\* /^[A-Za-z.]$/.test(cell), for a cell of one character
validChar(cell) == IsLetter(cell[1]) \/ cell[1] = "."
\* /^\d{4}-\d{2}-\d{2}$/.test(date)
uploadDatePattern(date) ==
    /\ Len(date) = 10
    /\ \A i \in {1, 2, 3, 4, 6, 7, 9, 10} : IsDigit(date[i])
    /\ date[5] = "-" /\ date[8] = "-"
\* name.endsWith(".json")
endsWithJson(name) ==
    Len(name) >= 5 /\ SubSeq(name, Len(name) - 4, Len(name)) = <<".", "j", "s", "o", "n">>

\* The first grid element the loop of lines 118-139 rejects, with its error
RECURSIVE GridCellError(_, _)
GridCellError(cells, i) ==
    IF i >= Len(cells) THEN [error |-> "none"]
    ELSE LET cell == cells[i + 1]
         IN  IF cell.type # "string"
             THEN [error |-> "Grid element must be a string", element |-> i + 1]
             ELSE IF Len(cell.value) # 1
             THEN [error |-> "Grid element must be a single character", element |-> i + 1,
                   length |-> Len(cell.value)]
             ELSE IF ~validChar(cell.value)
             THEN [error |-> "Grid element is invalid. Only letters and dots (.) are allowed",
                   element |-> i + 1, cell |-> cell.value]
             ELSE GridCellError(cells, i + 1)

\* Lines 47-149: the error the validation of the parsed document returns, or
\* none
validatePuzzle(puzzleData) ==
    LET sizeValue == Prop(puzzleData, SizeKey)
        rows == Prop(sizeValue, RowsKey)
        cols == Prop(sizeValue, ColsKey)
        cluesValue == Prop(puzzleData, CluesKey)
        across == Prop(cluesValue, AcrossKey)
        down == Prop(cluesValue, DownKey)
        gridValue == Prop(puzzleData, GridKey)
        invalid(list) == {i \in 1..Len(list.items) :
                             list.items[i].type # "string" \/ ~cluePattern(list.items[i].value)}
        cellError == GridCellError(gridValue.items, 0)
    IN  IF puzzleData.type = "null"
        THEN [error |-> "Cannot read properties of null (reading 'author')"]
        ELSE IF \/ Falsy(Prop(puzzleData, AuthorKey)) \/ Falsy(Prop(puzzleData, TitleKey))
                \/ Falsy(sizeValue) \/ Falsy(cluesValue) \/ Falsy(gridValue)
        THEN [error |-> "Invalid puzzle structure. Must include author, title, size, clues, and grid"]
        ELSE IF \/ ~TypeofObject(sizeValue) \/ rows.type # "number" \/ cols.type # "number"
                \/ rows.value < 1 \/ cols.value < 1 \/ rows.value > 50 \/ cols.value > 50
        THEN [error |-> "Invalid size. Must have rows and cols (1-50)"]
        ELSE IF ~TypeofObject(cluesValue) \/ across.type # "array" \/ down.type # "array"
        THEN [error |-> "Invalid clues. Must have across and down arrays"]
        ELSE IF invalid(across) # {} \/ invalid(down) # {}
        THEN [error |-> "Invalid clue format. Each clue must be a string like \"1. Clue text\""]
        ELSE IF gridValue.type # "array"
        THEN [error |-> "Invalid grid. Must be an array of strings"]
        ELSE IF Len(gridValue.items) # rows.value * cols.value
        THEN [error |-> "Grid must have as many elements as rows x cols",
              expected |-> rows.value * cols.value, actual |-> Len(gridValue.items)]
        ELSE IF cellError.error # "none" THEN cellError
        ELSE IF ~\E i \in 1..Len(gridValue.items) : IsLetter(gridValue.items[i].value[1])
        THEN [error |-> "Grid must contain at least one letter (non-black square)"]
        ELSE [error |-> "none"]

Redirect == [redirect |-> "/"]

\* export async function action({ request }): what it returns for the form
actionResult(form) ==
    IF ~Truthy(form.date) \/ form.file = Null
    THEN [error |-> "Date and file are required"]
    ELSE IF ~uploadDatePattern(form.date)
    THEN [error |-> "Date must be in format YYYY-MM-DD"]
    ELSE IF ~endsWithJson(form.file.name) /\ form.file.type # "application/json"
    THEN [error |-> "File must be a JSON file"]
    ELSE LET parsed == JSONparse(form.file.text)
             invalid == validatePuzzle(parsed.value)
         IN  IF ~parsed.ok THEN [error |-> "Invalid JSON file"]
             ELSE IF invalid.error # "none" THEN invalid
             ELSE Redirect

\* The documents the model uploads: the author, the size, the across clues
\* and the grid vary
PuzzleValue(author, sizeValue, across, gridValue) ==
    Obj(<<AuthorKey, TitleKey, SizeKey, CluesKey, GridKey>>,
        <<author, Str(<<"T">>), sizeValue, Obj(<<AcrossKey, DownKey>>, <<across, Arr(<< >>)>>), gridValue>>)
SizeValue(rows, cols) == Obj(<<RowsKey, ColsKey>>, <<Num(rows), Num(cols)>>)
GoodClues == Arr(<<Str(<<"1", ".", " ", "x">>)>>)
GoodPuzzle(letter) == PuzzleValue(Str(<<"A">>), SizeValue(1, 1), GoodClues, Arr(<<Str(letter)>>))
\* Documents the checks of the action pass
PassingValues ==
    <<GoodPuzzle(<<"A">>), GoodPuzzle(<<"B">>), GoodPuzzle(<<"a">>),
     PuzzleValue(Str(<<"A">>), SizeValue(1, 2), GoodClues, Arr(<<Str(Dot), Str(<<"A">>)>>)),
     PuzzleValue(Str(<<"A">>), SizeValue(1, 1), Arr(<<Str(<<"1", ".", "x">>)>>), Arr(<<Str(<<"A">>)>>))>>
\* Documents with one defect each
FailingValues ==
    <<GoodPuzzle(Dot),
     GoodPuzzle(<<"A", "B">>),
     GoodPuzzle(<<"1">>),
     PuzzleValue(Str(<<"A">>), SizeValue(1, 1), GoodClues, Arr(<<Num(5)>>)),
     PuzzleValue(Str(<<"A">>), SizeValue(0, 1), GoodClues, Arr(<< >>)),
     PuzzleValue(Str(<<"A">>), SizeValue(51, 1), GoodClues, Arr(<<Str(<<"A">>)>>)),
     PuzzleValue(Str(<<"A">>), SizeValue(1, 2), GoodClues, Arr(<<Str(<<"A">>)>>)),
     PuzzleValue(Str(<<"A">>), SizeValue(1, 1), Arr(<<Str(<<"x">>)>>), Arr(<<Str(<<"A">>)>>)),
     PuzzleValue(Str(<<"A">>), SizeValue(1, 1), Arr(<<Str(<<"1", ".">>)>>), Arr(<<Str(<<"A">>)>>)),
     PuzzleValue(Str(<<"A">>), SizeValue(1, 1), Arr(<<Num(7)>>), Arr(<<Str(<<"A">>)>>)),
     PuzzleValue(Str(EmptyStr), SizeValue(1, 1), GoodClues, Arr(<<Str(<<"A">>)>>)),
     PuzzleValue(Str(<<"A">>), Num(5), GoodClues, Arr(<<Str(<<"A">>)>>)),
     PuzzleValue(Str(<<"A">>), SizeValue(1, 1), GoodClues, Str(<<"A">>)),
     Obj(<<AuthorKey, TitleKey, SizeKey, CluesKey, GridKey>>,
         <<Str(<<"A">>), Str(<<"T">>), SizeValue(1, 1), Str(<<"c">>), Arr(<<Str(<<"A">>)>>)>>),
     Arr(<< >>), Num(5), [type |-> "null"]>>
\* The texts of the files: the documents, and a text that is not JSON
PassingTexts == {JSONstringify(PassingValues[i]) : i \in 1..Len(PassingValues)}
FailingTexts == {JSONstringify(FailingValues[i]) : i \in 1..Len(FailingValues)} \cup {<<"x">>}

JsonName == <<"p", ".", "j", "s", "o", "n">>
TextName == <<"p", ".", "t", "x", "t">>
UploadDates == {<<"2", "0", "2", "6", "-", "0", "1", "-", "0", "3">>,
                <<"2", "0", "2", "6", "-", "0", "1", "-", "0", "5">>}
File(name, type, text) == [name |-> name, type |-> type, text |-> text]
\* The forms: every file under two dates, and a good file with a defect of
\* the form
UploadForms ==
    {[date |-> d, file |-> File(JsonName, "", t)] : d \in UploadDates, t \in PassingTexts}
    \cup {[date |-> d, file |-> File(JsonName, "", t)] :
             d \in {<<"2", "0", "2", "6", "-", "0", "1", "-", "0", "3">>}, t \in FailingTexts}
    \cup {[date |-> d, file |-> File(TextName, ty, JSONstringify(GoodPuzzle(<<"A">>)))] :
             d \in {<<"2", "0", "2", "6", "-", "0", "1", "-", "0", "3">>},
             ty \in {"", "application/json"}}
    \cup {[date |-> d, file |-> File(JsonName, "", JSONstringify(GoodPuzzle(<<"A">>)))] :
             d \in {EmptyStr, <<"1", "/", "3", "/", "2", "0", "2", "6">>}}
    \cup {[date |-> <<"2", "0", "2", "6", "-", "0", "1", "-", "0", "3">>, file |-> Null]}

\* The bucket with the object of that key put or replaced
PutObject(objects, key, body) ==
    [k \in DOMAIN objects \cup {key} |-> IF k = key THEN body ELSE objects[k]]

\* One request to the upload action, with what s3.send(PutObjectCommand) does
action(form) ==
    /\ phase = "server"
    /\ formData' = form
    /\ LET result == actionResult(form)
       IN  /\ actionData' = result
           /\ bucket' = IF result = Redirect
                        THEN PutObject(bucket, form.date \o <<".", "j", "s", "o", "n">>,
                                       form.file.text)
                        ELSE bucket
    /\ UNCHANGED <<phase, puzzleVars, userGrid, selectedCell, direction, completionVars,
                   isPaused, uploadVars, storageVars, timerVars, pageVars, today,
                   cachedPuzzle, cachedPuzzleKey, loaderData, getObjectKey, calls>>

\* The server with an empty bucket
InitUpload ==
    /\ phase = "server"
    /\ bucket = << >>
    /\ today = Null /\ cachedPuzzle = Null /\ cachedPuzzleKey = Null /\ loaderData = Null
    /\ NoPage
    /\ size = [rows |-> 0, cols |-> 0]
    /\ grid = << >>
    /\ clues = [across |-> << >>, down |-> << >>]
    /\ userGrid = << >>
    /\ selectedCell = Null
    /\ direction = "across"
    /\ clueMap = << >>
    /\ numberGrid = << >>
    /\ isComplete = FALSE
    /\ isCorrect = FALSE
    /\ isTimerRunning = TRUE
    /\ isPaused = FALSE
    /\ showSuccessMessage = FALSE
    /\ puzFile = << >>
    /\ puzResult = NoResult
    /\ NoStorage /\ TimerInit

NextUpload == \E form \in UploadForms : action(form)

SpecUpload == InitUpload /\ [][NextUpload]_vars

(***************************************************************************)
(* The loader and the upload action on one server: requests are served one *)
(* after the other.                                                        *)
(***************************************************************************)
\* An object that is no document, put into the bucket by other means
JunkKey == <<"2", "0", "2", "6", "-", "0", "1", "-", "0", "4", ".", "j", "s", "o", "n">>
\* The bucket before the first request: empty, or holding a puzzle, the junk
\* object, or both
InitialBuckets ==
    LET early == <<"2", "0", "2", "6", "-", "0", "1", "-", "0", "3", ".", "j", "s", "o", "n">>
        puzzle == JSONstringify(GoodPuzzle(<<"A">>))
    IN  {<< >>,
         PutObject(<< >>, early, puzzle),
         PutObject(<< >>, JunkKey, <<"x">>),
         PutObject(PutObject(<< >>, early, puzzle), JunkKey, <<"x">>)}
\* The forms sent to this server: two puzzles under two dates, and a file
\* that is rejected
CacheForms ==
    {[date |-> d, file |-> File(JsonName, "", JSONstringify(GoodPuzzle(letter)))] :
        d \in UploadDates, letter \in {<<"A">>, <<"B">>}}
    \cup {[date |-> d, file |-> File(JsonName, "", <<"x">>)] : d \in UploadDates}

InitCache ==
    /\ phase = "server"
    /\ bucket \in InitialBuckets
    /\ today = Null /\ cachedPuzzle = Null /\ cachedPuzzleKey = Null /\ loaderData = Null
    /\ NoPage
    /\ size = [rows |-> 0, cols |-> 0]
    /\ grid = << >>
    /\ clues = [across |-> << >>, down |-> << >>]
    /\ userGrid = << >>
    /\ selectedCell = Null
    /\ direction = "across"
    /\ clueMap = << >>
    /\ numberGrid = << >>
    /\ isComplete = FALSE
    /\ isCorrect = FALSE
    /\ isTimerRunning = TRUE
    /\ isPaused = FALSE
    /\ showSuccessMessage = FALSE
    /\ puzFile = << >>
    /\ puzResult = NoResult
    /\ NoStorage /\ TimerInit

NextCache ==
    \/ loader
    \/ \E form \in CacheForms : action(form)

SpecCache == InitCache /\ [][NextCache]_vars

(***************************************************************************)
(* The loader step by step.  An invocation runs up to each await and goes  *)
(* on when the awaited response is there; other invocations and uploads    *)
(* run in between.  calls[i] is where invocation i is: pc, the listing it  *)
(* got, its latestKey, and the body its GetObject returned.                *)
(***************************************************************************)
MaxCalls == 2
Invocations == 1..MaxCalls
NotStarted == [pc |-> "start", listing |-> {}, key |-> Null, body |-> Null]

\* S3 serves the ListObjectsV2Command of line 32: the keys at that moment
loaderList(i) ==
    /\ phase = "server"
    /\ calls[i].pc = "start"
    /\ calls' = [calls EXCEPT ![i] = [@ EXCEPT !.pc = "listed", !.listing = DOMAIN bucket]]
    /\ UNCHANGED <<puzzleVars, userGrid, selectedCell, direction, completionVars, isPaused,
                   uploadVars, storageVars, timerVars, pageVars, formData, actionData,
                   getObjectKey, phase, loaderVars>>

\* Lines 34-59: the invocation goes on with its listing, and returns the
\* fallback, returns the cached puzzle, or sends the GetObjectCommand
loaderSelect(i) ==
    /\ phase = "server"
    /\ calls[i].pc = "listed"
    /\ LET sortedFiles == {k \in calls[i].listing : datePattern(k)}
           latestKey == CHOOSE k \in sortedFiles : \A q \in sortedFiles : ~localeCompareLess(k, q)
       IN  IF sortedFiles = {}
           THEN /\ loaderData' = DefaultPuzzle
                /\ getObjectKey' = Null
                /\ calls' = [calls EXCEPT ![i] = [@ EXCEPT !.pc = "done"]]
           ELSE IF cachedPuzzle # Null /\ cachedPuzzleKey = latestKey
           THEN /\ loaderData' = cachedPuzzle
                /\ getObjectKey' = Null
                /\ calls' = [calls EXCEPT ![i] = [@ EXCEPT !.pc = "done"]]
           ELSE /\ getObjectKey' = latestKey
                /\ calls' = [calls EXCEPT ![i] = [@ EXCEPT !.pc = "get", !.key = latestKey]]
                /\ UNCHANGED loaderData
    /\ UNCHANGED <<puzzleVars, userGrid, selectedCell, direction, completionVars, isPaused,
                   uploadVars, storageVars, timerVars, pageVars, formData, actionData,
                   phase, bucket, today, cachedPuzzle, cachedPuzzleKey>>

\* S3 serves the GetObjectCommand of line 61: the body of the object at that
\* moment
loaderGet(i) ==
    /\ phase = "server"
    /\ calls[i].pc = "get"
    /\ calls' = [calls EXCEPT ![i] = [@ EXCEPT !.pc = "body", !.body = bucket[calls[i].key]]]
    /\ UNCHANGED <<puzzleVars, userGrid, selectedCell, direction, completionVars, isPaused,
                   uploadVars, storageVars, timerVars, pageVars, formData, actionData,
                   getObjectKey, phase, loaderVars>>

\* An invocation that stores the key that is the latest when it ends
loaderParse_KeyOfNow(i) ==
    /\ phase = "server"
    /\ calls[i].pc = "body"
    /\ LET sortedFiles == {k \in DOMAIN bucket : datePattern(k)}
           latestNow == CHOOSE k \in sortedFiles : \A q \in sortedFiles : ~localeCompareLess(k, q)
       IN  IF calls[i].body = EmptyStr \/ ~JSONparse(calls[i].body).ok
           THEN /\ loaderData' = DefaultPuzzle
                /\ calls' = [calls EXCEPT ![i] = [@ EXCEPT !.pc = "done"]]
                /\ UNCHANGED <<cachedPuzzle, cachedPuzzleKey>>
           ELSE LET puzzleData == ToJs(JSONparse(calls[i].body).value)
                IN  /\ cachedPuzzle' = puzzleData
                    /\ cachedPuzzleKey' = latestNow
                    /\ loaderData' = puzzleData
                    /\ calls' = [calls EXCEPT ![i] = [@ EXCEPT !.pc = "cached"]]
    /\ UNCHANGED <<puzzleVars, userGrid, selectedCell, direction, completionVars, isPaused,
                   uploadVars, storageVars, timerVars, pageVars, formData, actionData,
                   getObjectKey, phase, bucket, today>>

\* Lines 62-83: the body is there; the invocation parses it and updates the
\* cache, or returns the fallback
loaderParse(i) ==
    /\ phase = "server"
    /\ calls[i].pc = "body"
    /\ IF calls[i].body = EmptyStr \/ ~JSONparse(calls[i].body).ok
       THEN /\ loaderData' = DefaultPuzzle
            /\ calls' = [calls EXCEPT ![i] = [@ EXCEPT !.pc = "done"]]
            /\ UNCHANGED <<cachedPuzzle, cachedPuzzleKey>>
       ELSE LET puzzleData == ToJs(JSONparse(calls[i].body).value)
            IN  /\ cachedPuzzle' = puzzleData
                /\ cachedPuzzleKey' = calls[i].key
                /\ loaderData' = puzzleData
                /\ calls' = [calls EXCEPT ![i] = [@ EXCEPT !.pc = "cached"]]
    /\ UNCHANGED <<puzzleVars, userGrid, selectedCell, direction, completionVars, isPaused,
                   uploadVars, storageVars, timerVars, pageVars, formData, actionData,
                   getObjectKey, phase, bucket, today>>

InitConcurrent ==
    /\ phase = "server"
    /\ bucket \in InitialBuckets
    /\ today = Null /\ cachedPuzzle = Null /\ cachedPuzzleKey = Null /\ loaderData = Null
    /\ hidden = FALSE /\ localKeys = << >>
    /\ formData = Null /\ actionData = Null /\ getObjectKey = Null
    /\ calls = [i \in Invocations |-> NotStarted]
    /\ size = [rows |-> 0, cols |-> 0]
    /\ grid = << >>
    /\ clues = [across |-> << >>, down |-> << >>]
    /\ userGrid = << >>
    /\ selectedCell = Null
    /\ direction = "across"
    /\ clueMap = << >>
    /\ numberGrid = << >>
    /\ isComplete = FALSE
    /\ isCorrect = FALSE
    /\ isTimerRunning = TRUE
    /\ isPaused = FALSE
    /\ showSuccessMessage = FALSE
    /\ puzFile = << >>
    /\ puzResult = NoResult
    /\ NoStorage /\ TimerInit

NextConcurrent ==
    \/ \E i \in Invocations : loaderList(i)
    \/ \E i \in Invocations : loaderSelect(i)
    \/ \E i \in Invocations : loaderGet(i)
    \/ \E i \in Invocations : loaderParse(i)
    \/ \E form \in CacheForms : action(form)

SpecConcurrent == InitConcurrent /\ [][NextConcurrent]_vars

(***************************************************************************)
(* Properties.                                                             *)
(***************************************************************************)
Cells == Rows \X Cols
Playable(rc) == grid[rc[1]][rc[2]] # Dot
InGrid(rc) == rc[1] \in Rows /\ rc[2] \in Cols
\* rc comes no later than qd in the row-major scan
RowMajorLeq(rc, qd) == rc[1] < qd[1] \/ (rc[1] = qd[1] /\ rc[2] <= qd[2])
SomeEntry == \E rc \in Cells : userGrid[rc[1]][rc[2]] # EmptyStr

\* C1: the selected cell is unset, or it is a cell inside the grid whose
\* grid value is not the black marker.
C1_SelectedCellPlayable ==
    selectedCell = Null \/ (InGrid(selectedCell) /\ Playable(selectedCell))

\* The cursor has been moved, after letters were entered, to a cell whose left
\* neighbour is black and whose right neighbour is outside the grid.
C1_Witness ==
    /\ phase = "mounted" /\ selectedCell # Null /\ SomeEntry
    /\ selectedCell[2] > 0 /\ selectedCell[2] = size.cols - 1
    /\ grid[selectedCell[1]][selectedCell[2] - 1] = Dot

\* A playable cell at the left edge or right of a black cell, or at the top
\* edge or below a black cell
StartsRun(rc) ==
    /\ Playable(rc)
    /\ \/ rc[2] = 0 \/ grid[rc[1]][rc[2] - 1] = Dot
       \/ rc[1] = 0 \/ grid[rc[1] - 1][rc[2]] = Dot

\* C2: the numbered cells are exactly the playable cells at the left edge or
\* with a black left neighbour, or at the top edge or with a black top
\* neighbour; every other cell has no number; and the numbers are 1, 2, ..., k
\* in row-major order (the number of a cell is its rank among the numbered
\* cells), however many usable runs the cell starts.
C2_Numbering ==
    phase = "mounted" =>
        \A rc \in Cells :
            numberGrid[rc[1]][rc[2]] =
                IF StartsRun(rc)
                THEN Cardinality({qd \in Cells : StartsRun(qd) /\ RowMajorLeq(qd, rc)})
                ELSE 0

EntriesAt(rc) == {i \in 1..Len(clueMap) :
                    clueMap[i].startRow = rc[1] /\ clueMap[i].startCol = rc[2]}

\* One numbered cell starts two clue entries, an earlier numbered cell starts
\* none, and a later cell is numbered 3 or more.
C2_Witness ==
    /\ phase = "mounted"
    /\ \E rc \in Cells, qd \in Cells, xy \in Cells :
          /\ numberGrid[qd[1]][qd[2]] > 0 /\ EntriesAt(qd) = {}
          /\ numberGrid[rc[1]][rc[2]] > numberGrid[qd[1]][qd[2]]
          /\ Cardinality(EntriesAt(rc)) = 2
          /\ numberGrid[xy[1]][xy[2]] > numberGrid[rc[1]][rc[2]]

\* The cell after the last cell of an entry's span
CellAfter(e) == IF e.direction = "across" THEN <<e.startRow, e.startCol + e.length>>
                ELSE <<e.startRow + e.length, e.startCol>>

\* C3: every clue entry is well formed: its start cell carries its number,
\* its length is at least 2, every cell of its span is inside the grid and
\* playable, and the run ends there (the next cell is outside the grid or
\* black).
C3_EntriesWellFormed ==
    phase = "mounted" =>
        \A i \in 1..Len(clueMap) :
            LET e == clueMap[i]
                cells == getWordCells(e, e.direction)
            IN  /\ InGrid(<<e.startRow, e.startCol>>)
                /\ numberGrid[e.startRow][e.startCol] = e.number
                /\ e.length >= 2
                /\ Len(cells) = e.length
                /\ cells[1] = <<e.startRow, e.startCol>>
                /\ \A k \in 1..Len(cells) : InGrid(cells[k]) /\ Playable(cells[k])
                /\ ~(InGrid(CellAfter(e)) /\ Playable(CellAfter(e)))

\* The clue map holds an across entry that a black cell ends and a down entry
\* that the grid's edge ends, of different lengths.
C3_Witness ==
    /\ phase = "mounted"
    /\ \E i \in 1..Len(clueMap), j \in 1..Len(clueMap) :
          /\ clueMap[i].direction = "across" /\ InGrid(CellAfter(clueMap[i]))
          /\ clueMap[j].direction = "down" /\ ~InGrid(CellAfter(clueMap[j]))
          /\ clueMap[i].length # clueMap[j].length

\* An entry made of white space only
Blank(s) == \A i \in 1..Len(s) : IsSpace(s[i])

\* C4: isComplete is true exactly when every playable cell has an entry that
\* is not blank; isCorrect is true exactly when isComplete holds and every
\* playable cell's upper-cased entry is the grid's character; entries on
\* black cells do not matter; and the check changes neither grid.
C4_Completion ==
    /\ [](phase = "checked" =>
            LET filled == \A rc \in Cells : Playable(rc) => ~Blank(userGrid[rc[1]][rc[2]])
                right  == \A rc \in Cells : Playable(rc) =>
                              ToUpperCase(userGrid[rc[1]][rc[2]]) = grid[rc[1]][rc[2]]
            IN  /\ isComplete <=> filled
                /\ isCorrect <=> (filled /\ right)
                /\ isCorrect => isComplete)
    /\ [][userGrid' = userGrid /\ grid' = grid]_vars

\* A check that reported correct for a grid with a black cell that holds an
\* entry and a playable cell that holds a lower-case letter.
C4_Witness ==
    /\ phase = "checked" /\ isComplete /\ isCorrect
    /\ \E rc \in Cells, qd \in Cells :
          /\ ~Playable(rc) /\ userGrid[rc[1]][rc[2]] = <<"B">>
          /\ Playable(qd) /\ userGrid[qd[1]][qd[2]] = <<"a">>

\* C5: once the completion check has reported correct, no step changes
\* userGrid and the puzzle stays correct.
C5_CorrectIsFinal ==
    [][isCorrect => (userGrid' = userGrid /\ isCorrect')]_vars

\* A correct puzzle with letters in it, after the success message was closed.
C5_Witness ==
    /\ phase = "mounted" /\ isCorrect /\ ~showSuccessMessage
    /\ Cardinality({rc \in Cells : userGrid[rc[1]][rc[2]] # EmptyStr}) >= 2

\* C6: while the pause flag is set, no step changes the cursor, the direction
\* or userGrid (pause/resume itself changes none of them).
C6_PausedNoOp ==
    [][isPaused => UNCHANGED <<selectedCell, direction, userGrid>>]_vars

\* A step that is a click on a black cell, or an arrow key with no playable
\* cell in its direction, or Backspace / BACK on an empty cell whose previous
\* cell is black or outside the grid
InvalidTargetStep ==
    \/ \E rc \in Cells : ~Playable(rc) /\ handleCellClick(rc[1], rc[2])
    \/ \E rc \in FocusedCells, key \in ArrowKeys :
          /\ findNextCell(grid, rc[1], rc[2], deltaRow(key), deltaCol(key), size) = Null
          /\ handleKeyDown(key, FALSE, rc[1], rc[2])
    \/ \E rc \in FocusedCells :
          LET prev == IF direction = "across" THEN <<rc[1], rc[2] - 1>>
                      ELSE <<rc[1] - 1, rc[2]>>
          IN  /\ userGrid[rc[1]][rc[2]] = EmptyStr
              /\ ~(InGrid(prev) /\ Playable(prev))
              /\ handleKeyboardClick(BACK)

\* C7: a step whose target cell is black or outside the grid, and every step
\* taken while interaction is disabled, leaves the cursor, the direction and
\* userGrid unchanged.
C7_InputNoOp ==
    [][(isInteractionDisabled \/ InvalidTargetStep)
          => UNCHANGED <<selectedCell, direction, userGrid>>]_vars

\* The positions of a word's cells, and its cells that are empty in ug
SpanCell(clue, k) == IF clue.direction = "across"
                     THEN <<clue.startRow, clue.startCol + (k - 1)>>
                     ELSE <<clue.startRow + (k - 1), clue.startCol>>
EmptyAt(clue, ug) == {k \in 1..clue.length :
                        ug[SpanCell(clue, k)[1]][SpanCell(clue, k)[2]] = EmptyStr}
Least(S) == CHOOSE k \in S : \A m \in S : k <= m

\* What C8 says of a letter input of value at the cursor cell rc
C8_Post(rc, value) ==
    LET stored == <<UpperChar(value[Len(value)])>>
        clue   == getCurrentClue
        pos    == CHOOSE k \in 1..clue.length : SpanCell(clue, k) = rc
        later  == {k \in EmptyAt(clue, userGrid') : k > pos}
    IN  /\ userGrid' = [userGrid EXCEPT ![rc[1]][rc[2]] = stored]
        /\ direction' = direction
        /\ IF clue = NoClue THEN selectedCell' = selectedCell
           ELSE IF later # {} THEN selectedCell' = SpanCell(clue, Least(later))
           ELSE selectedCell' = goToNextClue

\* C8: a letter input (a value of one or more characters) at the cursor cell
\* while enabled stores the last character of the value, upper-cased, in that
\* cell and in no other; the direction is unchanged; and when a current clue
\* exists the cursor moves to the first cell after it in the word that is
\* empty in the updated grid, or, when the word has none, to where the forward
\* clue-advance takes it.
C8_LetterInput ==
    [][/\ \A rc \in FocusedCells, value \in InputValues \ {EmptyStr} :
             (~isInteractionDisabled /\ handleInputChange(rc[1], rc[2], value))
                 => C8_Post(rc, value)
       /\ \A key \in KeyboardKeys \ {BACK} :
             (~isInteractionDisabled /\ selectedCell # Null /\ handleKeyboardClick(key))
                 => C8_Post(selectedCell, key)]_vars

\* The cursor stands on the third cell of the current word, which is empty,
\* behind two filled cells that hold different letters.
C8_Witness ==
    /\ phase = "mounted" /\ selectedCell # Null /\ getCurrentClue # NoClue
    /\ getCurrentClue.length >= 3
    /\ selectedCell = SpanCell(getCurrentClue, 3)
    /\ EmptyAt(getCurrentClue, userGrid) = {3}
    /\ userGrid[SpanCell(getCurrentClue, 1)[1]][SpanCell(getCurrentClue, 1)[2]] = <<"A">>
    /\ userGrid[SpanCell(getCurrentClue, 2)[1]][SpanCell(getCurrentClue, 2)[2]] = <<"B">>

\* The clues of the current direction, and the one met j steps from the
\* current clue going forward (increment 1) or backward (increment -1)
DirClues == getCluesByDirection(direction)
CurrentIndex == CHOOSE i \in 1..Len(DirClues) : DirClues[i] = getCurrentClue
ClueAtStep(increment, j) ==
    DirClues[((CurrentIndex - 1 + increment * j + Len(DirClues)) % Len(DirClues)) + 1]

\* What C9 says of a clue-advance
C9_Post(increment) ==
    LET met    == {j \in 1..Len(DirClues) : EmptyAt(ClueAtStep(increment, j), userGrid) # {}}
        target == ClueAtStep(increment, Least(met))
    IN  /\ \A i \in 1..Len(DirClues), j \in 1..Len(DirClues) :
              i < j => DirClues[i].number < DirClues[j].number
        /\ selectedCell' = SpanCell(target, Least(EmptyAt(target, userGrid)))
        /\ direction' = direction
        /\ userGrid' = userGrid

SomeClueHasEmpty == \E i \in 1..Len(DirClues) : EmptyAt(DirClues[i], userGrid) # {}

\* C9: Tab (forward) and Shift+Tab (backward), with a current clue and some
\* clue of the direction not fully filled, take the clues of the direction in
\* ascending number order, start next to the current clue, wrap around, and
\* move the cursor to the first empty cell of the first clue met that has
\* one; direction and userGrid are unchanged.
C9_ClueAdvance ==
    [][\A rc \in FocusedCells, shiftKey \in BOOLEAN :
          (/\ ~isInteractionDisabled
           /\ handleKeyDown("Tab", shiftKey, rc[1], rc[2])
           /\ getCurrentClue # NoClue
           /\ SomeClueHasEmpty)
              => C9_Post(IF shiftKey THEN -1 ELSE 1)]_vars

\* The direction has three clues, one of them fully filled, and the cursor
\* stands on the first empty cell of a clue whose first cell is filled.
C9_Witness ==
    /\ phase = "mounted" /\ selectedCell # Null /\ getCurrentClue # NoClue
    /\ Len(DirClues) >= 3
    /\ \E i \in 1..Len(DirClues) : EmptyAt(DirClues[i], userGrid) = {}
    /\ 1 \notin EmptyAt(getCurrentClue, userGrid)
    /\ EmptyAt(getCurrentClue, userGrid) # {}
    /\ selectedCell = SpanCell(getCurrentClue, Least(EmptyAt(getCurrentClue, userGrid)))

\* Every clue of the current direction is fully filled in ug
AllFilled(ug) == \A i \in 1..Len(DirClues) : EmptyAt(DirClues[i], ug) = {}

\* What C10 says of a clue-advance when every clue is filled
C10_Post(increment) ==
    /\ selectedCell' = SpanCell(ClueAtStep(increment, 1), 1)
    /\ selectedCell' # selectedCell

\* C10: when every clue of the current direction is fully filled, a
\* clue-advance by Tab or Shift+Tab, or by a letter input that reaches the
\* end of the word, moves the cursor to the first cell of the adjacent clue
\* (wrapping) and never leaves it on the current cell.
C10_NeverStalls ==
    [][\A rc \in FocusedCells :
          /\ \A shiftKey \in BOOLEAN :
                (/\ ~isInteractionDisabled /\ getCurrentClue # NoClue
                 /\ AllFilled(userGrid')
                 /\ handleKeyDown("Tab", shiftKey, rc[1], rc[2]))
                    => C10_Post(IF shiftKey THEN -1 ELSE 1)
          /\ \A value \in InputValues \ {EmptyStr} :
                (/\ ~isInteractionDisabled /\ getCurrentClue # NoClue
                 /\ AllFilled(userGrid')
                 /\ handleInputChange(rc[1], rc[2], value))
                    => C10_Post(1)]_vars

\* The cell lies in the span of some entry of the clue map of direction dir
InWord(rc, dir) ==
    \E i \in 1..Len(clueMap) :
        /\ clueMap[i].direction = dir
        /\ \E k \in 1..clueMap[i].length : SpanCell(clueMap[i], k) = rc

\* What C11 says of a click on the cell rc
C11_Post(rc) ==
    /\ selectedCell' = rc
    /\ userGrid' = userGrid
    /\ direction' = IF InWord(rc, "across") /\ ~InWord(rc, "down") THEN "across"
                    ELSE IF InWord(rc, "down") /\ ~InWord(rc, "across") THEN "down"
                    ELSE "across"

\* C11: a click while enabled on a playable cell other than the selected one
\* moves the cursor to that cell, leaves userGrid unchanged, and sets the
\* direction to across when the cell lies in an across word and in no down
\* word, to down when it lies in a down word only, and to across in every
\* other case (in both words, or in neither).  Stated on the state the click
\* arrives in: the click can be taken and no step of it misses C11_Post.
C11_ClickSelects ==
    \A rc \in Cells :
        (/\ phase = "mounted" /\ ~isInteractionDisabled
         /\ Playable(rc) /\ rc # selectedCell)
            => /\ ENABLED handleCellClick(rc[1], rc[2])
               /\ ~ENABLED (handleCellClick(rc[1], rc[2]) /\ ~C11_Post(rc))

\* What C12 says of a toggle in place
C12_Post ==
    /\ direction' # direction
    /\ direction' \in {"across", "down"}
    /\ flipDirection(direction') = direction
    /\ selectedCell' = selectedCell
    /\ userGrid' = userGrid

\* C12: a click on the selected cell, and the Space key, each flip the
\* direction between across and down (so that flipping the new direction gives
\* the old one back) and leave the cursor and userGrid unchanged.
C12_ToggleInPlace ==
    \A rc \in FocusedCells :
        (phase = "mounted" /\ ~isInteractionDisabled)
            => /\ flipDirection(flipDirection(direction)) = direction
               /\ ENABLED handleCellClick(rc[1], rc[2])
               /\ ~ENABLED (handleCellClick(rc[1], rc[2]) /\ ~C12_Post)
               /\ ENABLED handleKeyDown(" ", FALSE, rc[1], rc[2])
               /\ ~ENABLED (handleKeyDown(" ", FALSE, rc[1], rc[2]) /\ ~C12_Post)

\* The direction is down on a cell that holds a letter and lies in an across
\* word only: it was flipped in place after the letter was typed.
C12_Witness ==
    /\ phase = "mounted" /\ ~isInteractionDisabled /\ selectedCell # Null
    /\ direction = "down"
    /\ userGrid[selectedCell[1]][selectedCell[2]] # EmptyStr
    /\ InWord(selectedCell, "across") /\ ~InWord(selectedCell, "down")

\* The distances from rc of the playable cells strictly beyond it in the
\* direction of an arrow key
StepsTo(rc, key) ==
    {n \in 1..(size.rows + size.cols) :
        /\ InGrid(<<rc[1] + n * deltaRow(key), rc[2] + n * deltaCol(key)>>)
        /\ Playable(<<rc[1] + n * deltaRow(key), rc[2] + n * deltaCol(key)>>)}

\* What C13 says of the arrow key pressed at rc
C13_Post(rc, key) ==
    /\ direction' = direction
    /\ userGrid' = userGrid
    /\ selectedCell' =
          IF StepsTo(rc, key) = {} THEN selectedCell
          ELSE <<rc[1] + Least(StepsTo(rc, key)) * deltaRow(key),
                 rc[2] + Least(StepsTo(rc, key)) * deltaCol(key)>>

\* C13: an arrow key at the cursor cell while enabled moves the cursor to the
\* nearest playable cell strictly in the pressed direction on the same row or
\* column, black cells being skipped, and leaves it where it is when there is
\* none before the boundary; direction and userGrid are unchanged.
C13_ArrowKeys ==
    \A rc \in FocusedCells, key \in ArrowKeys :
        (phase = "mounted" /\ ~isInteractionDisabled)
            => /\ ENABLED handleKeyDown(key, FALSE, rc[1], rc[2])
               /\ ~ENABLED (handleKeyDown(key, FALSE, rc[1], rc[2]) /\ ~C13_Post(rc, key))

\* The cursor stands, after a letter was typed, on a cell whose left neighbour
\* is black with a playable cell beyond it, and whose right neighbour is
\* outside the grid.
C13_Witness ==
    /\ phase = "mounted" /\ ~isInteractionDisabled /\ selectedCell # Null /\ SomeEntry
    /\ selectedCell[2] >= 2 /\ selectedCell[2] = size.cols - 1
    /\ grid[selectedCell[1]][selectedCell[2] - 1] = Dot
    /\ grid[selectedCell[1]][selectedCell[2] - 2] # Dot

\* The cursor cell is empty and is the first cell of the current word
AtEmptyWordStart ==
    /\ selectedCell # Null /\ getCurrentClue # NoClue
    /\ userGrid[selectedCell[1]][selectedCell[2]] = EmptyStr
    /\ selectedCell = SpanCell(getCurrentClue, 1)

\* What C14 says of a Backspace at the start of the word
C14_Post ==
    LET prev == ClueAtStep(-1, 1)
    IN  /\ selectedCell' = SpanCell(prev, prev.length)
        /\ userGrid' = userGrid
        /\ direction' = direction

\* C14: Backspace (the key, or the BACK key of the on-screen keyboard) on an
\* empty cell that is the first cell of the current word moves the cursor to
\* the last cell of the previous clue of the direction in clue order, wrapping
\* from the first clue to the last; userGrid and direction are unchanged.
\* Stated on the state the key is pressed in, so that a press that does
\* nothing at all is counted too: no step of either handler misses C14_Post.
C14_BackspaceAtWordStart ==
    (phase = "mounted" /\ ~isInteractionDisabled /\ AtEmptyWordStart) =>
        /\ \A rc \in FocusedCells :
              ~ENABLED (handleKeyDown("Backspace", FALSE, rc[1], rc[2]) /\ ~C14_Post)
        /\ ~ENABLED (handleKeyboardClick(BACK) /\ ~C14_Post)

\* The cursor cell is empty and lies in the current word after its first cell
AtEmptyInsideWord ==
    /\ selectedCell # Null /\ getCurrentClue # NoClue
    /\ userGrid[selectedCell[1]][selectedCell[2]] = EmptyStr
    /\ \E k \in 2..getCurrentClue.length : selectedCell = SpanCell(getCurrentClue, k)

\* What C15 says of a Backspace inside the word
C15_Post ==
    LET back == IF direction = "across" THEN <<selectedCell[1], selectedCell[2] - 1>>
                ELSE <<selectedCell[1] - 1, selectedCell[2]>>
    IN  /\ selectedCell' = back
        /\ userGrid' = [userGrid EXCEPT ![back[1]][back[2]] = EmptyStr]
        /\ direction' = direction

\* C15: Backspace (the key, or BACK) on an empty cell that is not the first
\* cell of the current word moves the cursor one cell backward in the current
\* direction and clears that cell; no other cell of userGrid and not the
\* direction change.
C15_BackspaceInsideWord ==
    (phase = "mounted" /\ ~isInteractionDisabled /\ AtEmptyInsideWord) =>
        /\ \A rc \in FocusedCells :
              /\ ENABLED handleKeyDown("Backspace", FALSE, rc[1], rc[2])
              /\ ~ENABLED (handleKeyDown("Backspace", FALSE, rc[1], rc[2]) /\ ~C15_Post)
        /\ showPuzzleInterface =>
              /\ ENABLED handleKeyboardClick(BACK)
              /\ ~ENABLED (handleKeyboardClick(BACK) /\ ~C15_Post)

\* The cursor stands on the empty third cell of a down word whose second cell
\* holds a letter.
C15_Witness ==
    /\ phase = "mounted" /\ ~isInteractionDisabled /\ AtEmptyInsideWord
    /\ direction = "down"
    /\ selectedCell = SpanCell(getCurrentClue, 3)
    /\ userGrid[selectedCell[1] - 1][selectedCell[2]] # EmptyStr

\* What C16 says of a deletion at the cursor cell rc
C16_Post(rc) ==
    /\ userGrid'[rc[1]][rc[2]] = EmptyStr
    /\ userGrid' = [userGrid EXCEPT ![rc[1]][rc[2]] = EmptyStr]
    /\ selectedCell' = selectedCell
    /\ direction' = direction

\* C16: Backspace on a cell that holds a letter clears it in place.  The
\* Backspace key itself changes nothing (handleKeyDown leaves it to the
\* <input>, which reports the empty value to handleInputChange); that change
\* event, and the BACK key of the on-screen keyboard, leave the cell empty, the
\* cursor and the direction where they are, and every other cell unchanged.
C16_BackspaceClearsInPlace ==
    \A rc \in FocusedCells :
        (/\ phase = "mounted" /\ ~isInteractionDisabled
         /\ userGrid[rc[1]][rc[2]] # EmptyStr) =>
            /\ ~ENABLED (handleKeyDown("Backspace", FALSE, rc[1], rc[2])
                            /\ ~(UNCHANGED vars))
            /\ ENABLED handleInputChange(rc[1], rc[2], EmptyStr)
            /\ ~ENABLED (handleInputChange(rc[1], rc[2], EmptyStr) /\ ~C16_Post(rc))
            /\ showPuzzleInterface =>
                  /\ ENABLED handleKeyboardClick(BACK)
                  /\ ~ENABLED (handleKeyboardClick(BACK) /\ ~C16_Post(rc))

\* The cursor stands on the second cell of a word of three cells or more, all
\* of them filled, the first two with different letters.
C16_Witness ==
    /\ phase = "mounted" /\ ~isInteractionDisabled
    /\ selectedCell # Null /\ getCurrentClue # NoClue
    /\ getCurrentClue.length >= 3
    /\ selectedCell = SpanCell(getCurrentClue, 2)
    /\ EmptyAt(getCurrentClue, userGrid) = {}
    /\ userGrid[SpanCell(getCurrentClue, 1)[1]][SpanCell(getCurrentClue, 1)[2]]
          # userGrid[selectedCell[1]][selectedCell[2]]

\* C17: every cell of userGrid holds the empty string or exactly one
\* character that is its own upper case, and every cell at a black position
\* of the grid is empty.
C17_EntriesOneUpperChar ==
    \A rc \in Cells :
        LET entry == userGrid[rc[1]][rc[2]]
        IN  /\ entry = EmptyStr \/ (Len(entry) = 1 /\ ToUpperCase(entry) = entry)
            /\ ~Playable(rc) => entry = EmptyStr

\* The rearrangements of a list
Perms(list) ==
    {[i \in 1..Len(list) |-> list[p[i]]] :
        p \in {q \in [1..Len(list) -> 1..Len(list)] :
                  \A i, j \in 1..Len(list) : q[i] = q[j] => i = j}}

\* The clue string matches /^(\d+)\.\s*(.+)$/: digits, a dot, and at least
\* one more character
WellFormed(s) ==
    \E d \in 1..(Len(s) - 2) : /\ \A i \in 1..d : IsDigit(s[i])
                               /\ s[d + 1] = "."
\* The leading number of a well-formed clue string
LeadingNumber(s) == ParseInt(SubSeq(s, 1, CHOOSE d \in 1..(Len(s) - 1) :
                                             /\ \A i \in 1..d : IsDigit(s[i])
                                             /\ s[d + 1] = "."))
\* The positions of the well-formed clues of number n in a list
CluesNumbered(list, n) ==
    {i \in 1..Len(list) : WellFormed(list[i]) /\ LeadingNumber(list[i]) = n}
\* No two well-formed clues of the list have the same leading number
DistinctNumbers(list) ==
    \A i, j \in 1..Len(list) :
        (WellFormed(list[i]) /\ WellFormed(list[j])
           /\ LeadingNumber(list[i]) = LeadingNumber(list[j])) => i = j

\* C18: clue texts are attached by parsed leading number and not by list
\* position: when the leading numbers are distinct within each direction,
\* every permutation of the across list and of the down list gives the clue
\* map and the number grid that the lists as given gave.
C18_OrderIrrelevant ==
    (/\ phase = "mounted"
     /\ DistinctNumbers(clues.across) /\ DistinctNumbers(clues.down)) =>
        \A across \in Perms(clues.across), down \in Perms(clues.down) :
            buildClueMapAndNumberGrid(grid, size, [across |-> across, down |-> down])
                = [clueMap |-> clueMap, numberGrid |-> numberGrid]

\* The across list has two well-formed clues in descending number order, and
\* both got an entry.
C18_Witness ==
    /\ phase = "mounted"
    /\ DistinctNumbers(clues.across) /\ DistinctNumbers(clues.down)
    /\ Len(clues.across) >= 2
    /\ WellFormed(clues.across[1]) /\ WellFormed(clues.across[2])
    /\ LeadingNumber(clues.across[1]) > LeadingNumber(clues.across[2])
    /\ \A k \in 1..2 : \E i \in 1..Len(clueMap) :
          /\ clueMap[i].direction = "across"
          /\ clueMap[i].number = LeadingNumber(clues.across[k])
          /\ clueMap[i].text = parseClue(clues.across[k]).text

\* The cell starts a run in the direction: it is playable and the cell before
\* it is outside the grid or black
RunStart(rc, dir) ==
    /\ Playable(rc)
    /\ IF dir = "across" THEN rc[2] = 0 \/ grid[rc[1]][rc[2] - 1] = Dot
       ELSE rc[1] = 0 \/ grid[rc[1] - 1][rc[2]] = Dot
\* The number of cells of the run from rc in the direction
RunLength(rc, dir) ==
    Cardinality({n \in 1..(size.rows + size.cols) :
        \A k \in 0..(n - 1) :
            LET at == IF dir = "across" THEN <<rc[1], rc[2] + k>> ELSE <<rc[1] + k, rc[2]>>
            IN  InGrid(at) /\ Playable(at)})
\* The number the numbering gives a cell that starts a run
RankOf(rc) == Cardinality({qd \in Cells : StartsRun(qd) /\ RowMajorLeq(qd, rc)})
ListOf(dir) == IF dir = "across" THEN clues.across ELSE clues.down
\* The entries the clue map must hold: one for each run start of length 2 or
\* more whose number some well-formed clue of the direction carries, with the
\* text of the first such clue
ExpectedEntries ==
    {[number |-> RankOf(rc),
      text |-> parseClue(ListOf(dir)[Least(CluesNumbered(ListOf(dir), RankOf(rc)))]).text,
      direction |-> dir, startRow |-> rc[1], startCol |-> rc[2],
      length |-> RunLength(rc, dir)] :
        <<rc, dir>> \in {x \in Cells \X {"across", "down"} :
                           /\ RunStart(x[1], x[2]) /\ RunLength(x[1], x[2]) >= 2
                           /\ CluesNumbered(ListOf(x[2]), RankOf(x[1])) # {}}}

\* C19: indexing never aborts on an inconsistency between clues and grid.
\* For every grid and any clue lists the indexer has a result, a number grid
\* of the grid's shape and a clue map; after the mount effect has stored it,
\* every run start keeps its number whether or not a clue names it, and the
\* clue map holds exactly one entry for each run start of length 2 or more
\* whose number a well-formed clue of the direction carries: a malformed
\* clue, or one whose number is no such run start's, adds nothing, and a run
\* start without a clue gets no entry and takes none away from the others.
C19_InconsistencyNotFatal ==
    /\ phase = "constructed" =>
          LET built == buildClueMapAndNumberGrid(grid, size, clues)
          IN  /\ DOMAIN built.numberGrid = Rows
              /\ \A r \in Rows : DOMAIN built.numberGrid[r] = Cols
              /\ Len(built.clueMap) <= 2 * Cardinality(Cells)
    /\ phase = "mounted" =>
          /\ \A rc \in Cells :
                numberGrid[rc[1]][rc[2]] = IF StartsRun(rc) THEN RankOf(rc) ELSE 0
          /\ {clueMap[i] : i \in 1..Len(clueMap)} = ExpectedEntries
          /\ Len(clueMap) = Cardinality(ExpectedEntries)

\* One list holds a malformed clue and a clue whose number no run start of
\* the direction has, a run start of length 2 or more has no clue, and
\* another one has its entry.
C19_Witness ==
    /\ phase = "mounted"
    /\ Len(clueMap) >= 1
    /\ \E dir \in {"across", "down"} :
          /\ \E i \in 1..Len(ListOf(dir)) : ~WellFormed(ListOf(dir)[i])
          /\ \E i \in 1..Len(ListOf(dir)) :
                /\ WellFormed(ListOf(dir)[i])
                /\ \A rc \in Cells :
                      (RunStart(rc, dir) /\ RunLength(rc, dir) >= 2)
                          => RankOf(rc) # LeadingNumber(ListOf(dir)[i])
    /\ \E rc \in Cells, dir \in {"across", "down"} :
          /\ RunStart(rc, dir) /\ RunLength(rc, dir) >= 2
          /\ CluesNumbered(ListOf(dir), RankOf(rc)) = {}

\* The eleven bytes from offset 0x02 are the codes of the marker
MarkerCarried == \A i \in 1..Len(Magic) : puzFile[2 + i] = charCode(Magic[i])
\* The width byte at 0x2C and the height byte at 0x2D are both in [1, 50]
DimensionsInRange == puzFile[45] \in 1..50 /\ puzFile[46] \in 1..50

\* C20: parsePuzFile fails, with an error and without a document, whenever
\* the bytes from 0x02 do not carry the marker ACROSS&DOWN or the width byte
\* or the height byte is outside [1, 50]; the failure for the marker and the
\* failure for the dimensions have different reason strings.
C20_MagicAndDimensions ==
    (puzResult # NoResult /\ ~(MarkerCarried /\ DimensionsInRange)) =>
        /\ puzResult.outcome = "error"
        /\ DOMAIN puzResult = {"outcome", "message"}
        /\ ~MarkerCarried => puzResult.message = MagicError
        /\ MarkerCarried =>
              /\ puzResult.message = DimensionError(puzFile[45], puzFile[46])
              /\ puzResult.message # MagicError

\* A file with the marker, the largest valid width and a height one above
\* the largest valid height has been refused for its dimensions.
C20_Witness ==
    /\ puzResult # NoResult /\ puzResult.outcome = "error"
    /\ MarkerCarried
    /\ puzFile[45] = 50 /\ puzFile[46] = 51

\* The number of NUL bytes of the file from offset k on
NulsFrom(k) == Cardinality({i \in (k + 1)..Len(puzFile) : puzFile[i] = 0})
\* The file ends before the solution block, the player-state block or one of
\* the title, author, copyright and clue strings that its header calls for
\* is complete (a string is complete when its NUL is in the file)
EndsEarly ==
    LET gridSize == puzFile[45] * puzFile[46]
    IN  \/ Len(puzFile) < 52 + 2 * gridSize
        \/ NulsFrom(52 + 2 * gridSize) < 3 + readShort(puzFile, 46)

\* C21: decoding a truncated buffer is fatal: when the buffer ends before the
\* solution block, the player-state block or any of the title, author,
\* copyright and clue strings that the header calls for, parsePuzFile fails
\* and returns no document.
C21_TruncationFatal ==
    (puzResult # NoResult /\ EndsEarly) => puzResult.outcome = "error"

\* The decoded document, when there is one
Doc == puzResult.document
DocCells == 0..(Doc.size.rows * Doc.size.cols - 1)
\* The cell at column x, row y of the decoded grid is inside it and black
DocBlack(x, y) ==
    /\ x >= 0 /\ x < Doc.size.cols /\ y >= 0 /\ y < Doc.size.rows
    /\ Doc.grid[y * Doc.size.cols + x + 1] = Dot
DocOpen(x, y) ==
    /\ x >= 0 /\ x < Doc.size.cols /\ y >= 0 /\ y < Doc.size.rows
    /\ Doc.grid[y * Doc.size.cols + x + 1] # Dot
\* The cell at row-major position k starts an across (a down) run of two
\* cells or more
AcrossStartAt(k) ==
    LET x == k % Doc.size.cols
        y == k \div Doc.size.cols
    IN  DocOpen(x, y) /\ ~DocOpen(x - 1, y) /\ DocOpen(x + 1, y)
DownStartAt(k) ==
    LET x == k % Doc.size.cols
        y == k \div Doc.size.cols
    IN  DocOpen(x, y) /\ ~DocOpen(x, y - 1) /\ DocOpen(x, y + 1)
\* The number of such a cell: its rank among the cells that start a run
StartNumber(k) ==
    Cardinality({j \in DocCells : j <= k /\ (AcrossStartAt(j) \/ DownStartAt(j))})
\* The run starts, each with its number and direction, and their merge order:
\* by number, across before down
Slots == {<<StartNumber(k), "across">> : k \in {j \in DocCells : AcrossStartAt(j)}}
            \cup {<<StartNumber(k), "down">> : k \in {j \in DocCells : DownStartAt(j)}}
SlotBefore(e, f) == e[1] < f[1] \/ (e[1] = f[1] /\ e[2] = "across" /\ f[2] = "down")
SlotAt(i) == CHOOSE e \in Slots : Cardinality({f \in Slots : SlotBefore(f, e)}) = i - 1
\* The cleaned clue strings of the file, in file order
FileClues ==
    LET gridSize  == puzFile[45] * puzFile[46]
        title     == readNullTerminatedString(puzFile, 52 + gridSize + gridSize)
        author    == readNullTerminatedString(puzFile, title.nextOffset)
        copyright == readNullTerminatedString(puzFile, author.nextOffset)
    IN  ReadClues(puzFile, copyright.nextOffset, 0, readShort(puzFile, 46), << >>).clueStrings
ListOfDoc(dir) == IF dir = "across" THEN Doc.clues.across ELSE Doc.clues.down
\* The leading number of every clue of the list is below that of the next
Ascending(list) ==
    \A i \in 1..(Len(list) - 1) :
        ParseInt(SubSeq(list[i], 1, DigitPrefix(list[i])))
            < ParseInt(SubSeq(list[i + 1], 1, DigitPrefix(list[i + 1])))

\* C22: direction reconstruction.  In the document decoded from a whole
\* file, the i-th clue string of the file, for every i that the merge of the
\* across-start and down-start numbers has an element for, is the clue
\* '<number>. <cleaned text>' of that element's number, in that element's
\* direction, at that element's rank among the run starts of the direction
\* (a number in both lists goes to across first and to down next); and when
\* the file has no more clues than the merge has elements, the two lists
\* hold nothing else and are in ascending number order.
C22_DirectionReconstruction ==
    (puzResult # NoResult /\ puzResult.outcome = "document" /\ ~EndsEarly) =>
        /\ \A i \in 1..Len(FileClues) :
              i <= Cardinality(Slots) =>
                 LET e    == SlotAt(i)
                     rank == Cardinality({f \in Slots : f[2] = e[2] /\ f[1] <= e[1]})
                 IN  /\ rank <= Len(ListOfDoc(e[2]))
                     /\ ListOfDoc(e[2])[rank]
                           = NumberToString(e[1]) \o <<".", " ">> \o FileClues[i]
        /\ Len(FileClues) <= Cardinality(Slots) =>
              /\ Len(Doc.clues.across) + Len(Doc.clues.down) = Len(FileClues)
              /\ Ascending(Doc.clues.across) /\ Ascending(Doc.clues.down)

\* The first clue of a whole file went to 1-across and the second one, whose
\* text markup was removed from, to 1-down: cell 1 starts a run both ways.
C22_Witness ==
    /\ puzResult # NoResult /\ puzResult.outcome = "document" /\ ~EndsEarly
    /\ Len(FileClues) = 2
    /\ Doc.clues.across = <<<<"1", ".", " ", "x">>>>
    /\ Doc.clues.down = <<<<"1", ".", " ", "y", "&", "z">>>>

\* C23: for every grid the decoder's numbering and the indexer's agree on the
\* cells that start an across or a down run: after a decoded document has
\* been loaded and indexed, every cell that assignClueNumbers numbered has
\* that number in numberGrid, and every clue '<n>. text' of the document has
\* its entry in the clue map, in its direction.
C23_NumberingsAgree ==
    (phase = "mounted" /\ puzResult # NoResult /\ puzResult.outcome = "document") =>
        /\ \A c \in assignClueNumbers(Doc.grid, Doc.size.cols, Doc.size.rows).cellNumbers :
              numberGrid[c[2]][c[1]] = c[3]
        /\ \A dir \in {"across", "down"} :
              \A i \in 1..Len(ListOfDoc(dir)) :
                  (i <= Cardinality({e \in Slots : e[2] = dir})) =>
                      \E j \in 1..Len(clueMap) :
                          /\ clueMap[j].direction = dir
                          /\ clueMap[j].number = LeadingNumber(ListOfDoc(dir)[i])
                          /\ clueMap[j].text = parseClue(ListOfDoc(dir)[i]).text

\* C24: decoding the example file (marker ACROSS&DOWN, width 3, height 1,
\* one clue, solution CAT, title T, author A, no copyright, clue string
\* "1. Feline") yields the grid C, A, T, the across list with the one
\* element "1. Feline" and an empty down list.
C24_ExampleDecode ==
    (puzFile = ExampleFile /\ puzResult # NoResult) =>
        /\ puzResult.outcome = "document"
        /\ Doc.grid = <<<<"C">>, <<"A">>, <<"T">>>>
        /\ Doc.clues.across = <<ExampleClue>>
        /\ Doc.clues.down = << >>

\* C25: for the grid of rows CAT, black, DOG with the across clues
\* "1. Feline" and "7. Canine" and no down clue, the indexer gives number 1
\* to cell (0,0) and number 7 to cell (2,0).
C25_ExampleNumbers ==
    (phase = "mounted" /\ size = [rows |-> 3, cols |-> 3] /\ clues.across = ExampleAcross) =>
        /\ numberGrid[0][0] = 1
        /\ numberGrid[2][0] = 7

\* C26: for every grid, with or without a playable cell, the completion
\* check of a user grid whose cells are all empty reports not complete.
C26_EmptyNotComplete ==
    (phase = "checked" /\ \A rc \in Cells : userGrid[rc[1]][rc[2]] = EmptyStr) => ~isComplete

\* The shape of a parsed snapshot: an array of sz.rows arrays of sz.cols items
SameShape(v, sz) ==
    /\ v.type = "array" /\ Len(v.items) = sz.rows
    /\ \A i \in 1..Len(v.items) : v.items[i].type = "array" /\ Len(v.items[i].items) = sz.cols

EmptyUserGrid == [i \in 0..(size.rows - 1) |-> [j \in 0..(size.cols - 1) |-> EmptyStr]]

\* C27: the saved snapshot becomes the user grid, as it was saved, only when
\* it has as many rows and as many columns as the grid; a snapshot of any
\* other shape, a text that does not parse and no text at all give the
\* all-empty user grid.
C27_RestoreOnlyMatching ==
    phase = "constructed" =>
        IF savedState # Null /\ JSONparse(savedState).ok /\ SameShape(JSONparse(savedState).value, size)
        THEN userGrid = ToJs(JSONparse(savedState).value)
        ELSE userGrid = EmptyUserGrid

\* C28: when the component is given a new document, the user grid becomes
\* all-empty with the dimensions of the new grid, and the cursor is unset or
\* on a playable cell of the new grid.
C28_ResetPerPuzzle ==
    [][(phase = "mounted" /\ grid' # grid) =>
          /\ userGrid' = [i \in 0..(size'.rows - 1) |-> [j \in 0..(size'.cols - 1) |-> EmptyStr]]
          /\ selectedCell' = Null \/ grid'[selectedCell'[1]][selectedCell'[2]] # Dot]_vars

\* The time a tick would show
Displayed == pausedTimeRef + (now - lastResumeTimeRef) \div 1000

\* C29: the elapsed time changes only in a step taken while the timer is
\* running, the puzzle is not correct and the pause flag is not set, so a
\* tick in a paused or a correct state leaves it unchanged; the passing of
\* time changes it in no state; and a resume keeps the elapsed time and
\* restarts the count from it, so the time that passed during the pause is
\* in no later value.
C29_TimerFrozen ==
    [][/\ elapsedTime' # elapsedTime => (isTimerRunning /\ ~isCorrect /\ ~isPaused /\ now' = now)
       /\ (isPaused /\ ~isPaused') => (elapsedTime' = elapsedTime /\ Displayed' = elapsedTime)
       /\ (isCorrect \/ isPaused) => ~ENABLED Tick]_vars

\* One second of solving, one second of pause, one more second of solving:
\* three seconds have passed and the elapsed time is two seconds.
C29_Witness ==
    /\ ~isPaused /\ isTimerRunning
    /\ pausedTimeRef = 1 /\ lastResumeTimeRef = 2000 /\ now = 3000
    /\ elapsedTime = 2

\* The key of the current UTC date
TodayKey == today \o <<".", "j", "s", "o", "n">>

\* C30: the loader returns the puzzle stored under the key of the current
\* UTC date when the bucket holds a puzzle under that key, and the bundled
\* default puzzle when the bucket holds no object under that key.
C30_TodayOrDefault ==
    (phase = "loader" /\ loaderData # Null) =>
        /\ (TodayKey \in DOMAIN bucket /\ JSONparse(bucket[TodayKey]).ok) =>
               loaderData = ToJs(JSONparse(bucket[TodayKey]).value)
        /\ TodayKey \notin DOMAIN bucket => loaderData = DefaultPuzzle

\* The layout of the file, read off its bytes: the strings start after the
\* solution and the player state, and each ends at a NUL
StringsOffset == 52 + 2 * puzFile[45] * puzFile[46]
Nuls == {k \in StringsOffset..(Len(puzFile) - 1) : puzFile[k + 1] = 0}
NulAt(j) == CHOOSE k \in Nuls : Cardinality({q \in Nuls : q < k}) = j - 1
FieldStart(j) == IF j = 1 THEN StringsOffset ELSE NulAt(j - 1) + 1
Field(j) == [i \in 1..(NulAt(j) - FieldStart(j)) |-> fromCharCode(puzFile[FieldStart(j) + i])]
\* The text of a clue of the document, after its label, the dot and the space
TextOf(c) == LET dot == CHOOSE d \in 1..Len(c) : c[d] = "." /\ \A e \in 1..(d - 1) : c[e] # "."
             IN  SubSeq(c, dot + 2, Len(c))
\* The file with every byte of its player-state block replaced
WithState(fill) ==
    LET gridSize == puzFile[45] * puzFile[46]
    IN  [i \in 1..Len(puzFile) |-> IF i > 52 + gridSize /\ i <= 52 + 2 * gridSize THEN fill ELSE puzFile[i]]

\* C33: in the document decoded from a whole file the number of clues is the
\* 16-bit little-endian value at 0x2E, the grid is the width*height bytes at
\* 0x34, the strings after the player-state block are, in this order, the
\* title, the author, the copyright, the clues and, if bytes remain, the
\* notes, and the result is the same whatever the player-state block holds.
C33_Layout ==
    (puzResult # NoResult /\ puzResult.outcome = "document" /\ ~EndsEarly) =>
        LET numClues == puzFile[47] + 256 * puzFile[48]
            last == 3 + numClues
        IN  /\ Len(Doc.clues.across) + Len(Doc.clues.down) = numClues
            /\ Doc.grid = [i \in 1..(puzFile[45] * puzFile[46]) |-> <<fromCharCode(puzFile[52 + i])>>]
            /\ Field(1) # EmptyStr => Doc.title = Field(1)
            /\ Field(2) # EmptyStr => Doc.author = Field(2)
            /\ Doc.copyright = IF Field(3) # EmptyStr THEN Field(3) ELSE Undefined
            /\ \A i \in 1..numClues :
                  \E dir \in {"across", "down"} : \E j \in 1..Len(ListOfDoc(dir)) :
                      TextOf(ListOfDoc(dir)[j]) = cleanHtmlFromClue(Field(3 + i))
            /\ Doc.notes = IF NulAt(last) + 1 < Len(puzFile) /\ Field(last + 1) # EmptyStr
                           THEN Field(last + 1) ELSE Undefined
            /\ \A fill \in {0, charCode("A"), charCode(".")} : parsePuzFile(WithState(fill)) = puzResult

\* A whole file with two clues and a note, decoded.
C33_Witness ==
    /\ puzResult # NoResult /\ puzResult.outcome = "document" /\ ~EndsEarly
    /\ Len(FileClues) = 2 /\ Doc.notes = <<"n">>

\* The clue starts with the decimal number n, a dot and a space
LabelledWith(c, n) ==
    LET label == NumberToString(n) \o <<".", " ">>
    IN  Len(c) >= Len(label) /\ SubSeq(c, 1, Len(label)) = label

\* C36: in the document decoded from a whole file, whatever its clue count,
\* every clue of a list begins with the number of a run start of that list's
\* direction followed by '. ', and no two clues of a list carry the same run
\* start.
C36_CluesOnRunStarts ==
    (puzResult # NoResult /\ puzResult.outcome = "document" /\ ~EndsEarly) =>
        \A dir \in {"across", "down"} :
            /\ \A j \in 1..Len(ListOfDoc(dir)) :
                  \E e \in Slots : e[2] = dir /\ LabelledWith(ListOfDoc(dir)[j], e[1])
            /\ \A e \in Slots : e[2] = dir =>
                  Cardinality({j \in 1..Len(ListOfDoc(dir)) : LabelledWith(ListOfDoc(dir)[j], e[1])}) <= 1

\* The cell is playable and has a playable neighbour in the direction dir: it
\* lies in a run of two cells or more
InRun(rc, dir) ==
    LET before == IF dir = "across" THEN <<rc[1], rc[2] - 1>> ELSE <<rc[1] - 1, rc[2]>>
        after  == IF dir = "across" THEN <<rc[1], rc[2] + 1>> ELSE <<rc[1] + 1, rc[2]>>
    IN  /\ Playable(rc)
        /\ \/ before \in Cells /\ Playable(before)
           \/ after \in Cells /\ Playable(after)
\* Every run of two cells or more has its entry in the clue map
EveryRunHasClue ==
    \A rc \in Cells : \A dir \in {"across", "down"} : InRun(rc, dir) => InWord(rc, dir)

\* C34: when every run of two cells or more has a clue, a set cursor lies in
\* an entry of the clue map of the current direction: there is a current clue.
\* Stated for a cursor on a cell of some run of two cells or more, the case
\* most favourable to the claim.
C34_CursorHasClue ==
    (/\ phase = "mounted" /\ EveryRunHasClue /\ selectedCell # Null
     /\ (InRun(selectedCell, "across") \/ InRun(selectedCell, "down")))
        => getCurrentClue # NoClue

\* The Backspace key in the focused input: on a cell with a letter the key-down
\* handler passes and the input's change event arrives with the empty value
\* (handleInputChange); on an empty cell the key-down handler acts.
physicalBackspace(row, col) ==
    IF Truthy(userGrid[row][col])
    THEN LET newValue == ToUpperCase(SliceLast(EmptyStr))
             newGrid  == [userGrid EXCEPT ![row][col] = newValue]
         IN  [cell |-> inputNextCell(row, col, newValue, newGrid), grid |-> newGrid]
    ELSE backspaceOnEmpty(row, col)

\* C35: wherever the cursor is and whatever its cell holds, the BACK key of the
\* on-screen keyboard and the Backspace key give the same cursor and the same
\* userGrid (neither changes the direction).
C35_BackIsBackspace ==
    (phase = "mounted" /\ ~isInteractionDisabled /\ showPuzzleInterface /\ selectedCell # Null) =>
        backKey(selectedCell[1], selectedCell[2]) = physicalBackspace(selectedCell[1], selectedCell[2])

\* C39: while the last togglePause was a pause, the game is paused: nothing
\* but togglePause ends a pause that the user set, a change of the page's
\* visibility in particular.
C39_UserPauseStays == userPause => isPaused

\* C40: once the clean-up has run, localStorage holds no key that begins with
\* crossword_ other than the grid key and the timer key of the current puzzle.
C40_NoStaleKeys ==
    phase \in {"cleaned", "saved"} =>
        \A i \in 1..Len(localKeys) :
            startsWith(localKeys[i], KeyPrefix) => localKeys[i] \in {currentKey, currentTimerKey}

\* A clue of the form <digits>. <text>, the space after the dot taken as
\* optional
ClueForm(c) ==
    LET d == NumeralPrefix(c, FALSE)
    IN  d >= 1 /\ Len(c) > d + 1 /\ c[d + 1] = "."
\* The text is a document of the structured format: sizes from 1 to 50,
\* clues of the clue form, a grid of rows*cols single characters, each the
\* black marker or an upper-case letter
ConformingDocument(text) ==
    LET v == JSONparse(text).value
        rows == Prop(Prop(v, SizeKey), RowsKey)
        cols == Prop(Prop(v, SizeKey), ColsKey)
        across == Prop(Prop(v, CluesKey), AcrossKey)
        down == Prop(Prop(v, CluesKey), DownKey)
        cells == Prop(v, GridKey)
        clueList(list) == /\ list.type = "array"
                          /\ \A i \in 1..Len(list.items) :
                                list.items[i].type = "string" /\ ClueForm(list.items[i].value)
    IN  /\ JSONparse(text).ok
        /\ rows.type = "number" /\ rows.value \in 1..50
        /\ cols.type = "number" /\ cols.value \in 1..50
        /\ clueList(across) /\ clueList(down)
        /\ cells.type = "array" /\ Len(cells.items) = rows.value * cols.value
        /\ \A i \in 1..Len(cells.items) :
              /\ cells.items[i].type = "string" /\ Len(cells.items[i].value) = 1
              /\ cells.items[i].value = Dot \/ IsUpperLetter(cells.items[i].value[1])

\* C32: a request to the upload action stores the file only if its text is a
\* document of the structured format; every other request returns an error
\* value and leaves the bucket as it was.
C32_OnlyConformingStored ==
    [][<<formData, actionData, bucket>>' # <<formData, actionData, bucket>> =>
          IF actionData' = Redirect
          THEN ConformingDocument(formData'.file.text)
          ELSE "error" \in DOMAIN actionData' /\ bucket' = bucket]_vars

\* The dated keys of the bucket and the one the loader selects: the greatest
DatedKeys == {k \in DOMAIN bucket : datePattern(k)}
SelectedKey == CHOOSE k \in DatedKeys : \A q \in DatedKeys : q = k \/ localeCompareLess(q, k)
\* The object of that key holds a text JSON.parse accepts
Fetchable(k) == bucket[k] # EmptyStr /\ JSONparse(bucket[k]).ok

C38_UploadIsServed ==
    [][(/\ loader /\ actionData = Redirect
        /\ SelectedKey = formData.date \o <<".", "j", "s", "o", "n">>)
          => loaderData' = ToJs(JSONparse(formData.file.text).value)]_vars

\* C37: whatever the interleaving of the invocations and the uploads, the
\* cache is empty, or it holds the parsed body that some invocation got from
\* its GetObject for the key that is in cachedPuzzleKey; the fallback puzzle
\* is never in the cache.
C37_CachePairConsistent ==
    /\ cachedPuzzle = Null <=> cachedPuzzleKey = Null
    /\ cachedPuzzle # Null =>
          /\ cachedPuzzle # DefaultPuzzle
          /\ phase = "server" /\ calls # << >> =>
                \E i \in Invocations :
                    /\ calls[i].pc = "cached"
                    /\ calls[i].key = cachedPuzzleKey
                    /\ ToJs(JSONparse(calls[i].body).value) = cachedPuzzle

\* Two invocations have both updated the cache, with different bodies, and
\* an upload came in between.
C37_Witness ==
    /\ phase = "server" /\ calls # << >> /\ actionData = Redirect
    /\ \A i \in Invocations : calls[i].pc = "cached"
    /\ calls[1].body # calls[2].body

====
